---- MODULE Spec2Model ----
(***************************************************************************)
(* A model of graphql-compose's ObjectTypeComposer: the field store of a   *)
(* composite type (_gqcFields), the relation table (_gqcRelations), the    *)
(* compilation of a relation into a field config                           *)
(* (_relationWithResolverToFC) and the resolve function it builds.         *)
(*                                                                         *)
(* JavaScript values are modelled as strings: "undefined" and "null" are   *)
(* the two JS values, every other string is a concrete value.  An object   *)
(* is a TLA+ function whose DOMAIN is the set of its own keys.             *)
(***************************************************************************)
EXTENDS Naturals, Sequences, FiniteSets, TLC

VARIABLES
    fieldOrder,     \* Object.keys(this._gqcFields): the keys in insertion order
    gqcFields,      \* this._gqcFields: field name -> field config
    gqcRelations,   \* this._gqcRelations: field name -> relation opts
    lastOp,         \* the configuration call that ran last and how it ended
    calls,          \* the invocations of compiled resolve functions, by slot
    sink,           \* what the error sink (console.log(e)) received, per slot
    argObjs,        \* the argument config objects of the shared delegate
                    \* resolver, by object identity
    gqcInputTypeComposer,   \* this._gqcInputTypeComposer: 0 for undefined, or
                            \* the input type composer held, by identity
    itcs,           \* the input type composers created so far, by identity
    gqcTypeResolvers,   \* the type-resolver table: entries in insertion order
    dispatch,       \* the call of the compiled resolveType that is under way
    heap,           \* the objects of a type and its clone, by identity
    tcFields        \* _gqcFields of the type and of its clone: name -> object

inputVars == <<gqcInputTypeComposer, itcs>>
resolverVars == <<gqcTypeResolvers, dispatch>>
cloneVars == <<heap, tcFields>>

vars == <<fieldOrder, gqcFields, gqcRelations, lastOp, calls, sink, argObjs,
          inputVars, resolverVars, cloneVars>>

----------------------------------------------------------------------------
(* Bounds *)

\* caller-supplied argument values and source ids are "1" .. ToString(MaxVal)
MaxVal == 2
\* how many resolve invocations may be in flight at once
MaxCalls == 2

----------------------------------------------------------------------------
(* JavaScript values *)

Undefined == "undefined"
Null == "null"

Vals == { ToString(i) : i \in 1..MaxVal }

\* a concrete value no caller supplies: the value of a static override
StaticVal == "static"

\* `x || y`, `if (x)`: undefined, null and '' are falsy
IsTruthy(v) == v \notin {Undefined, Null, ""}

\* { ...a, ...b }
Spread(a, b) ==
    [k \in (DOMAIN a) \cup (DOMAIN b) |-> IF k \in DOMAIN b THEN b[k] ELSE a[k]]

\* delete o[k]
Delete(o, k) == [x \in (DOMAIN o) \ {k} |-> o[x]]

\* o[k] = v  (the keys as a set)
Assign(o, k, v) == [x \in (DOMAIN o) \cup {k} |-> IF x = k THEN v ELSE o[x]]

\* o[k], which is undefined for a key o does not have
Get(o, k) == IF k \in DOMAIN o THEN o[k] ELSE Undefined

EmptyObj == [k \in {} |-> Undefined]

\* the key order of an object after o[k] = v: a new key goes last
OrderAssign(order, k) ==
    IF \E i \in 1..Len(order) : order[i] = k THEN order ELSE Append(order, k)

\* the key order of an object after delete o[k]
OrderDelete(order, k) == SelectSeq(order, LAMBDA x : x # k)

----------------------------------------------------------------------------
(* Resolvers: instances of the Resolver class, the delegates of relations *)

ArgNames == {"id", "limit"}

\* an argument config of a resolver: { type }
ArgConfig(t) == [type |-> t]

\* resolver.args of the resolvers used here
ResolverArgSets ==
    { [a \in {"id", "limit"} |-> ArgConfig(IF a = "id" THEN "Int!" ELSE "Int")],
      [a \in {"id"} |-> ArgConfig("Int!")] }

\* A Resolver: its declared output type, its metadata, its args, and whether
\* resolver.getFieldConfig() carries a resolve function.
Resolvers ==
    { [isResolver |-> TRUE, type |-> t, description |-> d,
       deprecationReason |-> dr, args |-> a, hasResolve |-> hr] :
        t \in {"User"}, d \in {Undefined, "resolver description"},
        dr \in {Undefined, "resolver deprecated"},
        a \in ResolverArgSets, hr \in BOOLEAN }

\* a value that is not an instance of Resolver
NotAResolver == [isResolver |-> FALSE]

----------------------------------------------------------------------------
(* Relation opts: the second argument of addRelation *)

\* opts.resolver: absent, a Resolver, a function returning something, or
\* anything else
ResolverRefs ==
    { [form |-> "absent", target |-> NotAResolver] }
    \cup { [form |-> "value", target |-> r] : r \in Resolvers \cup {NotAResolver} }
    \cup { [form |-> "thunk", target |-> r] : r \in Resolvers \cup {NotAResolver} }

\* A value of opts.prepareArgs[argName]: undefined, null, one of two mapper
\* functions, or a concrete value.
\*   "fnSourceId"  is (source) => source.id
\*   "fnArgsLimit" is (source, args) => args.limit
PrepUndefined == [k |-> "undefined"]
PrepNull == [k |-> "null"]
PrepFnSourceId == [k |-> "fnSourceId"]
PrepFnArgsLimit == [k |-> "fnArgsLimit"]
PrepStatic == [k |-> "static"]

PrepVals == {PrepUndefined, PrepNull, PrepFnSourceId, PrepFnArgsLimit, PrepStatic}

isFunction(argMapVal) == argMapVal.k \in {"fnSourceId", "fnArgsLimit"}

\* every prepareArgs object over the argument names, with values from pv
PrepareArgsOver(pv) ==
    UNION { [S -> pv] : S \in SUBSET ArgNames }

\* opts.catchErrors: omitted, true or false
CatchErrorsVals == {Undefined, "true", "false"}

\* The relation opts, as a record of the properties the code reads; a
\* property the caller left out is Undefined (resolver: form "absent").
\*   type    - opts.type, a plain declaration of the field's type
\*   resolve - opts.resolve, a plain resolve function ("function")
MakeOpts(ref, type, resolve, prep, descr, depr, ce, proj) ==
    [resolver |-> ref, type |-> type, resolve |-> resolve, prepareArgs |-> prep,
     description |-> descr, deprecationReason |-> depr, catchErrors |-> ce,
     projection |-> proj]

----------------------------------------------------------------------------
(* _relationWithResolverToFC *)

\* const resolver = isFunction(opts.resolver) ? opts.resolver() : opts.resolver
ResolveMaybeThunk(ref) == ref.target

\* the checks without the one of opts.resolve
RelationError_NoResolveCheck(opts, resolver) ==
    IF ~resolver.isResolver THEN "NotAResolver"
    ELSE IF IsTruthy(opts.type) THEN "ResolverWithType"
    ELSE "none"

\* The three checks that reject a relation, in the order of the code; "none"
\* when the relation is accepted.
RelationError(opts, resolver) ==
    IF ~resolver.isResolver THEN "NotAResolver"
    ELSE IF IsTruthy(opts.type) THEN "ResolverWithType"
    ELSE IF IsTruthy(opts.resolve) THEN "ResolverWithResolve"
    ELSE "none"

RelationErrors == {"NotAResolver", "ResolverWithType", "ResolverWithResolve"}

\* const optsArgs = opts.prepareArgs || {}: opts without prepareArgs are
\* modelled with the empty object as their prepareArgs
OptsArgs(opts) == opts.prepareArgs

\* the keys of optsArgs with a truthy value test: null would stay exposed
MappedArgNames_NullKept(optsArgs) ==
    { argName \in DOMAIN optsArgs : optsArgs[argName] \notin {PrepUndefined, PrepNull} }

\* the keys of optsArgs whose value is not undefined
MappedArgNames(optsArgs) ==
    { argName \in DOMAIN optsArgs : optsArgs[argName] # PrepUndefined }

\* argsConfig: a copy of resolver.args without the keys prepareArgs maps
ArgsConfig(opts, resolver) ==
    [argName \in (DOMAIN resolver.args) \ MappedArgNames(OptsArgs(opts)) |->
        resolver.args[argName]]

\* argsProto: the concrete values of prepareArgs (neither function nor null)
ArgsProto(opts) ==
    LET optsArgs == OptsArgs(opts)
    IN  [argName \in { a \in MappedArgNames(optsArgs) :
                        /\ ~isFunction(optsArgs[a])
                        /\ optsArgs[a] # PrepNull } |-> StaticVal]

\* argsRuntime: the functions of prepareArgs, argument name -> function
ArgsRuntime(opts) ==
    LET optsArgs == OptsArgs(opts)
    IN  [argName \in { a \in MappedArgNames(optsArgs) : isFunction(optsArgs[a]) } |->
            optsArgs[argName].k]

\* const { catchErrors = true } = opts
CatchErrors(opts) == IF opts.catchErrors = Undefined THEN TRUE ELSE opts.catchErrors = "true"

\* The resolve function of a compiled relation: a closure over argsProto,
\* argsRuntime, catchErrors and fieldConfig = resolver.getFieldConfig().
RelationResolve(opts, resolver) ==
    [kind |-> "relation", argsProto |-> ArgsProto(opts),
     argsRuntime |-> ArgsRuntime(opts), catchErrors |-> CatchErrors(opts),
     hasDelegate |-> resolver.hasResolve]

\* the field config _relationWithResolverToFC returns
RelationFC(opts, resolver) ==
    [type |-> resolver.type,
     description |-> IF IsTruthy(opts.description) THEN opts.description
                     ELSE resolver.description,
     deprecationReason |-> opts.deprecationReason,
     args |-> ArgsConfig(opts, resolver),
     resolve |-> RelationResolve(opts, resolver),
     projection |-> opts.projection]

\* _relationWithResolverToFC(opts, fieldName): throws (err) or returns (fc)
RelationWithResolverToFC(opts) ==
    LET resolver == ResolveMaybeThunk(opts.resolver)
        err == RelationError(opts, resolver)
    IN  IF err # "none" THEN [err |-> err, fc |-> EmptyObj]
        ELSE [err |-> "none", fc |-> RelationFC(opts, resolver)]

----------------------------------------------------------------------------
(* The field store *)

FieldNames == {"a", "b"}
\* a name no type here has as a field
UnknownName == "zzz"

\* how many names a call of deprecateFields may list
MaxNames == 2

HasField(fields, fieldName) == fieldName \in DOMAIN fields

\* typeMapper.convertOutputFieldConfig applied to a field config given as an
\* object: the config keeps the keys it was given
ConvertOutputFieldConfig(fieldConfig) == fieldConfig

\* the assignment as a merge into the entry the name had
SetFieldIn_Merge(fields, fieldName, fieldConfig) ==
    Assign(fields, fieldName,
           IF HasField(fields, fieldName)
           THEN Spread(fields[fieldName], ConvertOutputFieldConfig(fieldConfig))
           ELSE ConvertOutputFieldConfig(fieldConfig))

\* this._gqcFields[fieldName] = convertOutputFieldConfig(fieldConfig)
SetFieldIn(fields, fieldName, fieldConfig) ==
    Assign(fields, fieldName, ConvertOutputFieldConfig(fieldConfig))

\* prevFieldConfig.extensions || {}
ExtensionsOf(fieldConfig) ==
    IF "extensions" \in DOMAIN fieldConfig THEN fieldConfig["extensions"] ELSE EmptyObj

\* the merge with partialFieldConfig.extensions taken whole
ExtendedConfig_ShallowOnly(prevFieldConfig, partialFieldConfig) ==
    Spread(Spread(prevFieldConfig, partialFieldConfig),
           [k \in {"extensions"} |-> ExtensionsOf(partialFieldConfig)])

\* the config extendField hands to setField
ExtendedConfig(prevFieldConfig, partialFieldConfig) ==
    Spread(Spread(prevFieldConfig, partialFieldConfig),
           [k \in {"extensions"} |->
               Spread(ExtensionsOf(prevFieldConfig), ExtensionsOf(partialFieldConfig))])

\* extendField(fieldName, partialFieldConfig) on a store: throws (err) when
\* getField throws, and otherwise sets the merged config
ExtendFieldIn(fields, fieldName, partialFieldConfig) ==
    IF ~HasField(fields, fieldName)
    THEN [err |-> "CannotExtend", fields |-> fields]
    ELSE [err |-> "none",
          fields |-> SetFieldIn(fields, fieldName,
                        ExtendedConfig(fields[fieldName], partialFieldConfig))]

\* { deprecationReason }
DeprecationPartial(reason) == [k \in {"deprecationReason"} |-> reason]

\* The forEach loops of deprecateFields over the names in order: each name is
\* checked against existedFieldNames and then extended at once; the throw of
\* an unknown name ends the loop and keeps what the earlier rounds did.
RECURSIVE DeprecateLoop(_, _, _, _)
DeprecateLoop(fields, existedFieldNames, names, reasonOf) ==
    IF names = <<>> THEN [err |-> "none", fields |-> fields]
    ELSE LET field == Head(names)
         IN  IF field \notin existedFieldNames
             THEN [err |-> "CannotDeprecate", fields |-> fields]
             ELSE LET r == ExtendFieldIn(fields, field, DeprecationPartial(reasonOf[field]))
                  IN  IF r.err # "none" THEN r
                      ELSE DeprecateLoop(r.fields, existedFieldNames, Tail(names), reasonOf)

\* The argument of deprecateFields: a string, an array of strings, or an
\* object name -> reason (names: its keys in order).
DeprecateNames(arg) == arg.names

DefaultReason == "deprecated"

DeprecateReasons(arg) ==
    IF arg.form = "map" THEN arg.reasons
    ELSE [n \in FieldNames \cup {UnknownName} |-> DefaultReason]

\* deprecateFields(fields)
DeprecateFieldsIn(fields, arg) ==
    DeprecateLoop(fields, DOMAIN fields, DeprecateNames(arg), DeprecateReasons(arg))

----------------------------------------------------------------------------
(* The resolve function of a compiled relation, at request time *)

Slots == 1..MaxCalls

\* the failures a delegate may end with
Errors == {"error 1", "error 2"}

\* the objects a caller may pass as args
ArgBags == UNION { [S -> Vals] : S \in SUBSET ArgNames }

\* the objects a caller may pass as source: { id }
Sources == [id : Vals]

\* What the delegate's resolve function does when it is called: it returns a
\* value, throws, or returns a promise that is settled later.
DelegateOutcomes ==
    { [kind |-> "value", v |-> v] : v \in Vals }
    \cup { [kind |-> "throw", v |-> e] : e \in Errors }
    \cup { [kind |-> "promise", v |-> Undefined] }

NoPromise == [state |-> "none", v |-> Undefined]
PendingPromise == [state |-> "pending", v |-> Undefined]

\* a slot whose invocation has not started
IdleCall == [pc |-> "idle"]

\* argFn(source, args, context, info) for the two mapper functions
ArgFn(fn, source, args) ==
    IF fn = "fnSourceId" THEN source.id ELSE Get(args, "limit")

\* a mapper function handed newArgs, the merged bag, in place of args
MapperInput_Merged(resolve, source, args) ==
    [source |-> source, args |-> Spread(args, resolve.argsProto)]

\* what a mapper function is called with: argFn(source, args, context, info),
\* args being the parameter of resolve
MapperInput(resolve, source, args) == [source |-> source, args |-> args]

\* const newArgs = { ...args, ...argsProto };
\* argsRuntime.forEach(([argName, argFn]) => { newArgs[argName] = argFn(source, args, ...) })
NewArgs(resolve, source, args) ==
    LET in == MapperInput(resolve, source, args)
    IN  Spread(Spread(args, resolve.argsProto),
               [argName \in DOMAIN resolve.argsRuntime |->
                   ArgFn(resolve.argsRuntime[argName], in.source, in.args)])

\* the calls of the mapper functions one invocation makes: argument name ->
\* what the function received and how often forEach called it
MapperCalls(resolve, source, args) ==
    LET in == MapperInput(resolve, source, args)
    IN  [argName \in DOMAIN resolve.argsRuntime |->
            [source |-> in.source, args |-> in.args, count |-> 1]]

\* const payload = fieldConfig.resolve ? fieldConfig.resolve(source, newArgs, ...) : null
Payload(resolve, outcome) ==
    IF resolve.hasDelegate THEN outcome ELSE [kind |-> "null", v |-> Null]

\* the return with the payload always wrapped, whatever catchErrors is
ResolveReturn_AlwaysWrap(resolve, payload) ==
    IF payload.kind = "throw"
    THEN [kind |-> "throw", v |-> payload.v, promise |-> "none"]
    ELSE [kind |-> "promise", v |-> Undefined, promise |-> "wrapped"]

\* return catchErrors ? Promise.resolve(payload).catch(e => ...) : payload
\* A throw of the delegate leaves the function before this line is reached.
ResolveReturn(resolve, payload) ==
    IF payload.kind = "throw"
    THEN [kind |-> "throw", v |-> payload.v, promise |-> "none"]
    ELSE IF resolve.catchErrors
         THEN [kind |-> "promise", v |-> Undefined, promise |-> "wrapped"]
         ELSE [kind |-> payload.kind, v |-> payload.v,
               promise |-> IF payload.kind = "promise" THEN "payload" ELSE "none"]

\* the state of Promise.resolve(payload): the delegate's own promise, or a
\* promise already fulfilled with the value
Resolved(call) ==
    IF call.payload.kind = "promise" THEN call.inner
    ELSE [state |-> "fulfilled", v |-> call.payload.v]

\* the handler given to .catch: it logs a message and the error and returns null
CatchLog(e) == <<"GQC ERROR: relation throws error:", e>>
CatchValue(e) == Null

IsRelation(fields, fieldName) ==
    /\ fieldName \in DOMAIN fields
    /\ "resolve" \in DOMAIN fields[fieldName]
    /\ fields[fieldName]["resolve"].kind = "relation"

\* resolve(source, args, context, info) of the relation field fieldName, up to
\* its return
Call(s, fieldName, source, args, outcome) ==
    /\ calls[s].pc = "idle"
    /\ IsRelation(gqcFields, fieldName)
    /\ LET resolve == gqcFields[fieldName]["resolve"]
           payload == Payload(resolve, outcome)
           result == ResolveReturn(resolve, payload)
       IN  calls' = [calls EXCEPT ![s] =
                [pc |-> "returned", field |-> fieldName, source |-> source,
                 args |-> args, resolve |-> resolve,
                 mapperCalls |-> MapperCalls(resolve, source, args),
                 delegateCalls |-> IF resolve.hasDelegate THEN 1 ELSE 0,
                 delegateArgs |-> IF resolve.hasDelegate
                                  THEN NewArgs(resolve, source, args) ELSE EmptyObj,
                 payload |-> payload,
                 inner |-> IF payload.kind = "promise" THEN PendingPromise ELSE NoPromise,
                 result |-> result,
                 outer |-> IF result.promise = "wrapped" THEN PendingPromise ELSE NoPromise]]
    /\ UNCHANGED <<fieldOrder, gqcFields, gqcRelations, lastOp, sink, argObjs,
                 inputVars, resolverVars, cloneVars>>

\* the promise the delegate returned is fulfilled or rejected
Settle(s, state, v) ==
    /\ calls[s].pc = "returned"
    /\ calls[s].inner.state = "pending"
    /\ calls' = [calls EXCEPT ![s].inner = [state |-> state, v |-> v]]
    /\ UNCHANGED <<fieldOrder, gqcFields, gqcRelations, lastOp, sink, argObjs,
                 inputVars, resolverVars, cloneVars>>

\* The reaction of Promise.resolve(payload).catch(handler) runs: a fulfilled
\* payload passes through, a rejected one goes to the handler.
Reaction(s) ==
    /\ calls[s].pc = "returned"
    /\ calls[s].outer.state = "pending"
    /\ LET p == Resolved(calls[s])
       IN  /\ p.state \in {"fulfilled", "rejected"}
           /\ IF p.state = "fulfilled"
              THEN /\ calls' = [calls EXCEPT ![s].outer = p]
                   /\ sink' = sink
              ELSE /\ calls' = [calls EXCEPT ![s].outer =
                                    [state |-> "fulfilled", v |-> CatchValue(p.v)]]
                   /\ sink' = [sink EXCEPT ![s] = sink[s] \o CatchLog(p.v)]
    /\ UNCHANGED <<fieldOrder, gqcFields, gqcRelations, lastOp, argObjs,
                 inputVars, resolverVars, cloneVars>>

\* names.forEach(name => { if (fields[name]) {
\*   orderedFields[name] = fields[name]; delete fields[name]; } })
\* on the objects orderedFields and fields, each with the order of its keys
RECURSIVE ReorderLoop(_, _, _, _, _)
ReorderLoop(orderedKeys, orderedFields, keys, fields, names) ==
    IF names = <<>>
    THEN [orderedKeys |-> orderedKeys, orderedFields |-> orderedFields,
          keys |-> keys, fields |-> fields]
    ELSE LET name == Head(names)
         IN  IF HasField(fields, name)
             THEN ReorderLoop(OrderAssign(orderedKeys, name),
                              Assign(orderedFields, name, fields[name]),
                              OrderDelete(keys, name),
                              Delete(fields, name), Tail(names))
             ELSE ReorderLoop(orderedKeys, orderedFields, keys, fields, Tail(names))

\* the key order of { ...a, ...b }: the keys of a, then the keys only b has
SpreadOrder(aKeys, bKeys) ==
    aKeys \o SelectSeq(bKeys, LAMBDA k : \A i \in 1..Len(aKeys) : aKeys[i] # k)

\* reorderFields with the spread written the other way round:
\* { ...fields, ...orderedFields }
ReorderFieldsIn_RestFirst(order, fields, names) ==
    LET r == ReorderLoop(<<>>, EmptyObj, order, fields, names)
    IN  [order |-> SpreadOrder(r.keys, r.orderedKeys),
         fields |-> Spread(r.fields, r.orderedFields)]

\* reorderFields(names): this._gqcFields = { ...orderedFields, ...fields }
ReorderFieldsIn(order, fields, names) ==
    LET r == ReorderLoop(<<>>, EmptyObj, order, fields, names)
    IN  [order |-> SpreadOrder(r.orderedKeys, r.keys),
         fields |-> Spread(r.orderedFields, r.fields)]

----------------------------------------------------------------------------
(* Type composers: a named type wrapped in ListComposer and NonNullComposer *)

\* A type composer is the sequence of its wrappers, the outermost first, that
\* ends with the name of the named type: [Int!]! is
\* <<"NonNull", "List", "NonNull", "Int">>.

\* how many wrappers the types have that setField is called with, and up to
\* how many the wrapping calls are followed
MaxWraps == 3

NonNullComposer(ofType) == <<"NonNull">> \o ofType
ListComposer(ofType) == <<"List">> \o ofType

\* type instanceof NonNullComposer, type instanceof ListComposer
IsNonNullComposer(type) == Head(type) = "NonNull"
IsListComposer(type) == Head(type) = "List"

\* type.ofType
OfType(type) == Tail(type)

\* graphql-js refuses a NonNull of a NonNull: no type is built with one
NoDoubleNonNull(type) ==
    \A i \in 1..(Len(type) - 1) : ~(type[i] = "NonNull" /\ type[i + 1] = "NonNull")

Wrappers == UNION { [1..n -> {"NonNull", "List"}] : n \in 0..MaxWraps }

\* the types over the named type name that can be written down
TypeComposers(name) == { w \o <<name>> : w \in { x \in Wrappers : NoDoubleNonNull(x) } }

\* makeFieldNonNull, makeFieldArgNonNull: what the call assigns to fc.type
MakeNonNull_Always(type) == NonNullComposer(type)

MakeNonNull(type) ==
    IF ~IsNonNullComposer(type) THEN NonNullComposer(type) ELSE type

\* makeFieldNullable, makeFieldArgNullable
MakeNullable_Noop(type) == type

MakeNullable(type) ==
    IF IsNonNullComposer(type) THEN OfType(type) ELSE type

\* isFieldPlural, isFieldArgPlural
IsPlural(type) ==
    \/ IsListComposer(type)
    \/ (IsNonNullComposer(type) /\ IsListComposer(OfType(type)))

\* makeFieldPlural, makeFieldArgPlural
MakePlural_Always(type) == ListComposer(type)

MakePlural(type) ==
    IF ~IsListComposer(type) THEN ListComposer(type) ELSE type

\* makeFieldNonPlural, makeFieldArgNonPlural
MakeNonPlural_NoRewrap(type) ==
    IF IsListComposer(type) THEN OfType(type)
    ELSE IF IsNonNullComposer(type) /\ IsListComposer(OfType(type))
         THEN OfType(OfType(type))
         ELSE type

MakeNonPlural_AlwaysRewrap(type) ==
    IF IsListComposer(type) THEN OfType(type)
    ELSE IF IsNonNullComposer(type) /\ IsListComposer(OfType(type))
         THEN NonNullComposer(OfType(OfType(type)))
         ELSE type

MakeNonPlural_ListOnly(type) ==
    IF IsListComposer(type) THEN OfType(type) ELSE type

MakeNonPlural(type) ==
    IF IsListComposer(type) THEN OfType(type)
    ELSE IF IsNonNullComposer(type) /\ IsListComposer(OfType(type))
         THEN IF IsNonNullComposer(OfType(OfType(type)))
              THEN OfType(OfType(type))
              ELSE NonNullComposer(OfType(OfType(type)))
         ELSE type

\* the argument config objects of the shared delegate resolver as created:
\* id: Int!, limit: Int
SharedArgObjs ==
    <<[type |-> <<"NonNull", "Int">>], [type |-> <<"Int">>]>>

\* resolver.args of that resolver: each argument name holds one of these
\* objects
ArgRef(i) == [ref |-> i]

SharedResolver ==
    [isResolver |-> TRUE, type |-> <<"User">>, description |-> Undefined,
     deprecationReason |-> Undefined,
     args |-> [a \in ArgNames |-> ArgRef(IF a = "id" THEN 1 ELSE 2)],
     hasResolve |-> TRUE]

TypeMethods ==
    {"makeFieldNonNull", "makeFieldNullable", "makeFieldPlural", "makeFieldNonPlural"}

\* what the body of the forEach of a wrapping method assigns to fc.type
NewType(method, type) ==
    CASE method = "makeFieldNonNull" -> MakeNonNull(type)
      [] method = "makeFieldNullable" -> MakeNullable(type)
      [] method = "makeFieldPlural" -> MakePlural(type)
      [] method = "makeFieldNonPlural" -> MakeNonPlural(type)

\* the loop ended by the first name that is no field
RECURSIVE ForEachField_StopAtUnknown(_, _, _)
ForEachField_StopAtUnknown(fields, fieldNames, method) ==
    IF fieldNames = <<>> \/ ~HasField(fields, Head(fieldNames)) THEN fields
    ELSE ForEachField_StopAtUnknown(
             [fields EXCEPT ![Head(fieldNames)].type = NewType(method, @)],
             Tail(fieldNames), method)

\* fieldNames.forEach(fieldName => { const fc = this._gqcFields[fieldName];
\*   if (fc ...) fc.type = ... })
RECURSIVE ForEachField(_, _, _)
ForEachField(fields, fieldNames, method) ==
    IF fieldNames = <<>> THEN fields
    ELSE LET fieldName == Head(fieldNames)
             fc == IF HasField(fields, fieldName)
                   THEN [fields EXCEPT ![fieldName].type = NewType(method, @)]
                   ELSE fields
         IN  ForEachField(fc, Tail(fieldNames), method)

ArgTypeMethods ==
    {"makeFieldArgNonNull", "makeFieldArgNullable", "makeFieldArgPlural",
     "makeFieldArgNonPlural"}

\* what the body of the forEach of a wrapping method for arguments assigns to
\* ac.type
NewArgType(method, type) ==
    CASE method = "makeFieldArgNonNull" -> MakeNonNull(type)
      [] method = "makeFieldArgNullable" -> MakeNullable(type)
      [] method = "makeFieldArgPlural" -> MakePlural(type)
      [] method = "makeFieldArgNonPlural" -> MakeNonPlural(type)

\* argNames.forEach(argName => { const ac = args[argName];
\*   if (ac ...) ac.type = ... }): ac is the object args[argName] refers to
RECURSIVE ForEachArg(_, _, _, _)
ForEachArg(objs, args, argNames, method) ==
    IF argNames = <<>> THEN objs
    ELSE LET argName == Head(argNames)
             ac == IF argName \in DOMAIN args
                   THEN [objs EXCEPT ![args[argName].ref].type = NewArgType(method, @)]
                   ELSE objs
         IN  ForEachArg(ac, args, Tail(argNames), method)

\* fc.args is set
HasArgs(fc) == "args" \in DOMAIN fc

\* argNames.forEach(argName => delete args[argName])
RemoveArgs(args, argNames) ==
    [a \in (DOMAIN args) \ { argNames[i] : i \in 1..Len(argNames) } |-> args[a]]

\* Object.keys(args).forEach(argName => {
\*   if (keepArgNames.indexOf(argName) === -1) delete args[argName] })
RemoveOtherArgs(args, keepArgNames) ==
    [a \in (DOMAIN args) \cap { keepArgNames[i] : i \in 1..Len(keepArgNames) } |->
        args[a]]

----------------------------------------------------------------------------
(* Configuration calls *)

\* The schema is built before requests are resolved: configuration calls run
\* while no resolve invocation has started.
NoCallStarted == \A s \in Slots : calls[s].pc = "idle"

Op(op, arg, err) == [op |-> op, arg |-> arg, err |-> err]

\* the field configs setField is called with here
PlainConfigs ==
    { [k \in {"type"} |-> "String"],
      [k \in {"type", "deprecationReason"} |->
          IF k = "type" THEN "Int" ELSE "old reason"] }

\* the keys of the descriptor a name has in a field map, none for a name of no field
KeysOf(fields, fieldName) ==
    IF HasField(fields, fieldName) THEN DOMAIN fields[fieldName] ELSE {}

\* setField(fieldName, fieldConfig)
SetField(fieldName, fieldConfig) ==
    /\ NoCallStarted
    /\ gqcFields' = SetFieldIn(gqcFields, fieldName, fieldConfig)
    /\ fieldOrder' = OrderAssign(fieldOrder, fieldName)
    /\ lastOp' = Op("setField",
                    [fieldName |-> fieldName,
                     fieldConfig |-> fieldConfig,
                     had |-> KeysOf(gqcFields, fieldName)],
                    "none")
    /\ UNCHANGED <<gqcRelations, calls, sink, argObjs,
                 inputVars, resolverVars, cloneVars>>

\* removeField(fieldName)
RemoveField(fieldName) ==
    /\ NoCallStarted
    /\ gqcFields' = Delete(gqcFields, fieldName)
    /\ fieldOrder' = OrderDelete(fieldOrder, fieldName)
    /\ lastOp' = Op("removeField", [fieldName |-> fieldName], "none")
    /\ UNCHANGED <<gqcRelations, calls, sink, argObjs,
                 inputVars, resolverVars, cloneVars>>

\* deprecateFields(fields)
DeprecateFields(arg) ==
    /\ NoCallStarted
    /\ LET r == DeprecateFieldsIn(gqcFields, arg)
       IN  /\ gqcFields' = r.fields
           /\ lastOp' = Op("deprecateFields", arg, r.err)
    /\ UNCHANGED <<fieldOrder, gqcRelations, calls, sink, argObjs,
                 inputVars, resolverVars, cloneVars>>

\* extendField(fieldName, partialFieldConfig): prev is what getField returned
ExtendField(fieldName, partialFieldConfig) ==
    /\ NoCallStarted
    /\ LET r == ExtendFieldIn(gqcFields, fieldName, partialFieldConfig)
       IN  /\ gqcFields' = r.fields
           /\ fieldOrder' = IF r.err = "none" THEN OrderAssign(fieldOrder, fieldName)
                                              ELSE fieldOrder
           /\ lastOp' = Op("extendField",
                           [fieldName |-> fieldName,
                            partial |-> partialFieldConfig,
                            prev |-> IF HasField(gqcFields, fieldName)
                                     THEN gqcFields[fieldName] ELSE EmptyObj],
                           r.err)
    /\ UNCHANGED <<gqcRelations, calls, sink, argObjs,
                 inputVars, resolverVars, cloneVars>>

\* addFields(newFields): { ...this._gqcFields, ...convertOutputFieldConfigMap(newFields) },
\* newFields given by its keys in order and its configs
AddFields(keys, newFields) ==
    /\ NoCallStarted
    /\ gqcFields' = Spread(gqcFields,
                        [k \in DOMAIN newFields |-> ConvertOutputFieldConfig(newFields[k])])
    /\ fieldOrder' = SpreadOrder(fieldOrder, keys)
    /\ lastOp' = Op("addFields",
                    [names |-> keys,
                     newFields |-> newFields,
                     had |-> [k \in DOMAIN newFields |-> KeysOf(gqcFields, k)]],
                    "none")
    /\ UNCHANGED <<gqcRelations, calls, sink, argObjs,
                 inputVars, resolverVars, cloneVars>>

AllNames == FieldNames \cup {UnknownName}

Reasons == {"dont use"}

\* the sequences of at most MaxNames names, and those without a repeated name
NameSeqs == UNION { [1..n -> AllNames] : n \in 0..MaxNames }
KeySeqs == { q \in NameSeqs : \A i, j \in 1..Len(q) : i # j => q[i] # q[j] }

\* the arguments deprecateFields is called with here
DeprecateArgs ==
    { [form |-> "string", names |-> <<n>>, reasons |-> [x \in AllNames |-> DefaultReason]] :
        n \in AllNames }
    \cup { [form |-> "array", names |-> q, reasons |-> [x \in AllNames |-> DefaultReason]] :
        q \in NameSeqs }
    \cup { [form |-> "map", names |-> q, reasons |-> r] :
        q \in KeySeqs, r \in [AllNames -> Reasons] }

\* createThunkedObjectProxy(() => this._relationWithResolverToFC(opts, fieldName)):
\* an object that stands for the thunk's result and calls the thunk when one
\* of its properties is first read
ThunkedObjectProxy(opts) == [proxy |-> TRUE, thunk |-> opts]

IsProxy(fieldConfig) == "proxy" \in DOMAIN fieldConfig

\* the field config addRelation hands to setField for opts that declare a type
\* and no resolver: the properties of opts that are set
PlainRelationConfig(opts) ==
    [k \in { x \in {"type", "resolve", "description", "deprecationReason"} :
                opts[x] # Undefined } |->
        IF k = "resolve" THEN [kind |-> "plain"] ELSE opts[k]]

\* addRelation as it would be if a resolver given as a thunk were resolved and
\* compiled during the call
AddRelation_EagerThunk(fieldName, opts) ==
    /\ NoCallStarted
    /\ gqcRelations' = Assign(gqcRelations, fieldName, opts)
    /\ IF opts.resolver.form # "absent"
       THEN LET r == RelationWithResolverToFC(opts)
            IN  IF r.err # "none"
                THEN /\ UNCHANGED <<gqcFields, fieldOrder>>
                     /\ lastOp' = Op("addRelation", [fieldName |-> fieldName], r.err)
                ELSE /\ gqcFields' = Assign(gqcFields, fieldName, r.fc)
                     /\ fieldOrder' = OrderAssign(fieldOrder, fieldName)
                     /\ lastOp' = Op("addRelation", [fieldName |-> fieldName], "none")
       ELSE IF opts.type # Undefined
            THEN /\ gqcFields' = SetFieldIn(gqcFields, fieldName, PlainRelationConfig(opts))
                 /\ fieldOrder' = OrderAssign(fieldOrder, fieldName)
                 /\ lastOp' = Op("addRelation", [fieldName |-> fieldName], "none")
            ELSE /\ UNCHANGED <<gqcFields, fieldOrder>>
                 /\ lastOp' = Op("addRelation", [fieldName |-> fieldName], "none")
    /\ UNCHANGED <<calls, sink, argObjs,
                 inputVars, resolverVars, cloneVars>>

\* addRelation(fieldName, opts)
AddRelation(fieldName, opts) ==
    /\ NoCallStarted
    /\ gqcRelations' = Assign(gqcRelations, fieldName, opts)
    /\ IF opts.resolver.form # "absent"
       THEN IF opts.resolver.form = "thunk"
            THEN /\ gqcFields' = Assign(gqcFields, fieldName, ThunkedObjectProxy(opts))
                 /\ fieldOrder' = OrderAssign(fieldOrder, fieldName)
                 /\ lastOp' = Op("addRelation", [fieldName |-> fieldName], "none")
            ELSE LET r == RelationWithResolverToFC(opts)
                 IN  IF r.err # "none"
                     THEN /\ UNCHANGED <<gqcFields, fieldOrder>>
                          /\ lastOp' = Op("addRelation", [fieldName |-> fieldName], r.err)
                     ELSE /\ gqcFields' = Assign(gqcFields, fieldName, r.fc)
                          /\ fieldOrder' = OrderAssign(fieldOrder, fieldName)
                          /\ lastOp' = Op("addRelation", [fieldName |-> fieldName], "none")
       ELSE IF opts.type # Undefined
            THEN /\ gqcFields' = SetFieldIn(gqcFields, fieldName, PlainRelationConfig(opts))
                 /\ fieldOrder' = OrderAssign(fieldOrder, fieldName)
                 /\ lastOp' = Op("addRelation", [fieldName |-> fieldName], "none")
            ELSE /\ UNCHANGED <<gqcFields, fieldOrder>>
                 /\ lastOp' = Op("addRelation", [fieldName |-> fieldName], "none")
    /\ UNCHANGED <<calls, sink, argObjs,
                 inputVars, resolverVars, cloneVars>>

\* getFieldConfig(fieldName): reads the properties of the field config, which
\* makes a thunked proxy call its thunk; the config the thunk returns is what
\* the proxy holds from then on, and a throw of the thunk reaches the caller.
GetFieldConfig(fieldName) ==
    /\ NoCallStarted
    /\ IF ~HasField(gqcFields, fieldName)
       THEN /\ UNCHANGED gqcFields
            /\ lastOp' = Op("getFieldConfig", [fieldName |-> fieldName], "CannotGetField")
       ELSE IF IsProxy(gqcFields[fieldName])
            THEN LET r == RelationWithResolverToFC(gqcFields[fieldName].thunk)
                 IN  IF r.err # "none"
                     THEN /\ UNCHANGED gqcFields
                          /\ lastOp' = Op("getFieldConfig", [fieldName |-> fieldName], r.err)
                     ELSE /\ gqcFields' = Assign(gqcFields, fieldName, r.fc)
                          /\ lastOp' = Op("getFieldConfig", [fieldName |-> fieldName], "none")
            ELSE /\ UNCHANGED gqcFields
                 /\ lastOp' = Op("getFieldConfig", [fieldName |-> fieldName], "none")
    /\ UNCHANGED <<fieldOrder, gqcRelations, calls, sink, argObjs,
                 inputVars, resolverVars, cloneVars>>

\* the types of the fields a call names, as the call finds them
TypesOf(fields, fieldNames) ==
    [f \in { fieldNames[i] : i \in 1..Len(fieldNames) } \cap DOMAIN fields |->
        fields[f].type]

\* the wrapping method that ran right before on the same names, if one did
After(fieldNames) ==
    IF lastOp.op \in TypeMethods /\ lastOp.arg.names = fieldNames
    THEN lastOp.op ELSE "other"

\* the types are followed while they have at most MaxWraps wrappers
WithinWraps(fields) ==
    \A f \in DOMAIN fields : Len(fields[f].type) <= MaxWraps + 1

\* makeFieldNonNull, makeFieldNullable, makeFieldPlural, makeFieldNonPlural
\* called with an array of names (a single name is the array of that name)
MakeFieldType(method, fieldNames) ==
    /\ NoCallStarted
    /\ WithinWraps(ForEachField(gqcFields, fieldNames, method))
    /\ gqcFields' = ForEachField(gqcFields, fieldNames, method)
    /\ lastOp' = Op(method, [names |-> fieldNames,
                             types |-> TypesOf(gqcFields, fieldNames),
                             after |-> After(fieldNames)], "none")
    /\ UNCHANGED <<fieldOrder, gqcRelations, calls, sink, argObjs,
                 inputVars, resolverVars, cloneVars>>

MakeFieldNonNull(fieldNames) == MakeFieldType("makeFieldNonNull", fieldNames)

MakeFieldNullable(fieldNames) == MakeFieldType("makeFieldNullable", fieldNames)

MakeFieldPlural(fieldNames) == MakeFieldType("makeFieldPlural", fieldNames)

MakeFieldNonPlural(fieldNames) == MakeFieldType("makeFieldNonPlural", fieldNames)

\* the types of the arguments a call names, as the call finds them
ArgTypesOf(fields, fieldName, argNames) ==
    IF HasField(fields, fieldName) /\ HasArgs(fields[fieldName])
    THEN [a \in { argNames[i] : i \in 1..Len(argNames) }
                    \cap DOMAIN fields[fieldName].args |->
            argObjs[fields[fieldName].args[a].ref].type]
    ELSE EmptyObj

ArgCall(fieldName, argNames) ==
    [fieldName |-> fieldName, names |-> argNames,
     types |-> ArgTypesOf(gqcFields, fieldName, argNames)]

WithinArgWraps(objs) ==
    \A i \in DOMAIN objs : Len(objs[i].type) <= MaxWraps + 1

\* makeFieldArgNonNull, makeFieldArgNullable, makeFieldArgPlural,
\* makeFieldArgNonPlural called with an array of argument names
MakeFieldArgType(method, fieldName, argNames) ==
    /\ NoCallStarted
    /\ IF ~HasField(gqcFields, fieldName)
       THEN /\ UNCHANGED argObjs
            /\ lastOp' = Op(method, ArgCall(fieldName, argNames), "CannotGetField")
       ELSE IF ~HasArgs(gqcFields[fieldName])
            THEN /\ UNCHANGED argObjs
                 /\ lastOp' = Op(method, ArgCall(fieldName, argNames), "none")
            ELSE LET objs == ForEachArg(argObjs, gqcFields[fieldName].args,
                                        argNames, method)
                 IN  /\ WithinArgWraps(objs)
                     /\ argObjs' = objs
                     /\ lastOp' = Op(method, ArgCall(fieldName, argNames), "none")
    /\ UNCHANGED <<fieldOrder, gqcFields, gqcRelations, calls, sink,
                 inputVars, resolverVars, cloneVars>>

MakeFieldArgNonNull(fieldName, argNames) ==
    MakeFieldArgType("makeFieldArgNonNull", fieldName, argNames)

MakeFieldArgNullable(fieldName, argNames) ==
    MakeFieldArgType("makeFieldArgNullable", fieldName, argNames)

MakeFieldArgPlural(fieldName, argNames) ==
    MakeFieldArgType("makeFieldArgPlural", fieldName, argNames)

MakeFieldArgNonPlural(fieldName, argNames) ==
    MakeFieldArgType("makeFieldArgNonPlural", fieldName, argNames)

\* removeFieldArg(fieldName, argNames)
RemoveFieldArg(fieldName, argNames) ==
    /\ NoCallStarted
    /\ IF HasField(gqcFields, fieldName) /\ HasArgs(gqcFields[fieldName])
       THEN gqcFields' = [gqcFields EXCEPT
                            ![fieldName].args = RemoveArgs(@, argNames)]
       ELSE UNCHANGED gqcFields
    /\ lastOp' = Op("removeFieldArg", ArgCall(fieldName, argNames), "none")
    /\ UNCHANGED <<fieldOrder, gqcRelations, calls, sink, argObjs,
                 inputVars, resolverVars, cloneVars>>

\* removeFieldOtherArgs(fieldName, keepArgNames)
RemoveFieldOtherArgs(fieldName, keepArgNames) ==
    /\ NoCallStarted
    /\ IF HasField(gqcFields, fieldName) /\ HasArgs(gqcFields[fieldName])
       THEN gqcFields' = [gqcFields EXCEPT
                            ![fieldName].args = RemoveOtherArgs(@, keepArgNames)]
       ELSE UNCHANGED gqcFields
    /\ lastOp' = Op("removeFieldOtherArgs", ArgCall(fieldName, keepArgNames), "none")
    /\ UNCHANGED <<fieldOrder, gqcRelations, calls, sink, argObjs,
                 inputVars, resolverVars, cloneVars>>

\* reorderFields(names)
ReorderFields(names) ==
    /\ NoCallStarted
    /\ LET r == ReorderFieldsIn(fieldOrder, gqcFields, names)
       IN  /\ fieldOrder' = r.order
           /\ gqcFields' = r.fields
    /\ lastOp' = Op("reorderFields",
                    [names |-> names, order |-> fieldOrder, fields |-> gqcFields],
                    "none")
    /\ UNCHANGED <<gqcRelations, calls, sink, argObjs,
                 inputVars, resolverVars, cloneVars>>

----------------------------------------------------------------------------
(* The input type composer of a type *)

\* how many input type composers are created
MaxInstances == 2

\* toInputObjectType(this): a new input type composer with the fields the
\* type has at the time of the call
ToInputObjectType(order) == [fields |-> order]

\* InputTypeComposer.createTemp(name): a new input type composer, no fields
TempInputTypeComposer == [fields |-> <<>>]

\* getInputTypeComposer() that converts the type at every call
GetInputTypeComposer_AlwaysGenerate ==
    /\ NoCallStarted
    /\ Len(itcs) < MaxInstances
    /\ itcs' = Append(itcs, ToInputObjectType(fieldOrder))
    /\ gqcInputTypeComposer' = Len(itcs) + 1
    /\ lastOp' = Op("getInputTypeComposer",
                    [returned |-> Len(itcs) + 1, held |-> gqcInputTypeComposer], "none")
    /\ UNCHANGED <<fieldOrder, gqcFields, gqcRelations, calls, sink, argObjs,
                   resolverVars, cloneVars>>

\* getInputTypeComposer()
GetInputTypeComposer ==
    /\ NoCallStarted
    /\ IF gqcInputTypeComposer = 0
       THEN /\ Len(itcs) < MaxInstances
            /\ itcs' = Append(itcs, ToInputObjectType(fieldOrder))
            /\ gqcInputTypeComposer' = Len(itcs) + 1
       ELSE UNCHANGED <<itcs, gqcInputTypeComposer>>
    /\ lastOp' = Op("getInputTypeComposer",
                    [returned |-> gqcInputTypeComposer', held |-> gqcInputTypeComposer],
                    "none")
    /\ UNCHANGED <<fieldOrder, gqcFields, gqcRelations, calls, sink, argObjs,
                   resolverVars, cloneVars>>

\* hasInputTypeComposer()
HasInputTypeComposer ==
    /\ NoCallStarted
    /\ lastOp' = Op("hasInputTypeComposer", [result |-> gqcInputTypeComposer # 0], "none")
    /\ UNCHANGED <<fieldOrder, gqcFields, gqcRelations, calls, sink, argObjs,
                   inputVars, resolverVars, cloneVars>>

\* setInputTypeComposer(itc), itc an input type composer there is already or
\* one made for the call by InputTypeComposer.createTemp
SetInputTypeComposer(itc) ==
    /\ NoCallStarted
    /\ itc \in 1..(Len(itcs) + 1)
    /\ itc <= MaxInstances
    /\ itcs' = IF itc > Len(itcs) THEN Append(itcs, TempInputTypeComposer) ELSE itcs
    /\ gqcInputTypeComposer' = itc
    /\ lastOp' = Op("setInputTypeComposer", [itc |-> itc], "none")
    /\ UNCHANGED <<fieldOrder, gqcFields, gqcRelations, calls, sink, argObjs,
                   resolverVars, cloneVars>>

\* removeInputTypeComposer()
RemoveInputTypeComposer ==
    /\ NoCallStarted
    /\ gqcInputTypeComposer' = 0
    /\ lastOp' = Op("removeInputTypeComposer", EmptyObj, "none")
    /\ UNCHANGED <<fieldOrder, gqcFields, gqcRelations, calls, sink, argObjs,
                   itcs, resolverVars, cloneVars>>

----------------------------------------------------------------------------
(* The type-resolver table of an interface or union type *)

ResolverTypes == {"Person", "KindRed", "KindBlue"}

\* a key that resolves to no object type, such as false
UnresolvableType == "false"

\* A check function, by how it returns (at once, or as a promise) and by what
\* it yields for the value under dispatch; two values that are no function:
\* true, and the argument left out.
CheckFn(mode, result) == [mode |-> mode, result |-> result]
CheckFns == { CheckFn(m, r) : m \in {"sync", "async"}, r \in BOOLEAN }
NotCallable == CheckFn("true", TRUE)
NoCheckFn == CheckFn("undefined", FALSE)

Entry(type, checkFn) == [type |-> type, checkFn |-> checkFn]

\* the place of the entry of a type in the table, 0 without one
EntryOf(entries, type) ==
    IF \E i \in 1..Len(entries) : entries[i].type = type
    THEN CHOOSE i \in 1..Len(entries) : entries[i].type = type
    ELSE 0

\* getTypeResolverCheckFn(type), for a type that has an entry
GetTypeResolverCheckFn(entries, type) == entries[EntryOf(entries, type)].checkFn

\* Map.set that always adds an entry at the end
MapSet_Append(entries, type, checkFn) == Append(entries, Entry(type, checkFn))

\* Map.set(type, checkFn): the entry of a key there is keeps its place
MapSet(entries, type, checkFn) ==
    IF EntryOf(entries, type) # 0
    THEN [entries EXCEPT ![EntryOf(entries, type)] = Entry(type, checkFn)]
    ELSE Append(entries, Entry(type, checkFn))

\* Map.delete(type)
MapDelete(entries, type) == SelectSeq(entries, LAMBDA e : e.type # type)

\* an entry setTypeResolvers accepts
ValidEntry(e) == e.type \in ResolverTypes /\ e.checkFn \in CheckFns

\* the table is changed, and the dispatch function called, while no call of
\* the dispatch function is under way
NoDispatchWaiting == dispatch.pc = "idle"

\* setTypeResolvers(typeResolversMap)
SetTypeResolvers(typeResolversMap) ==
    /\ NoDispatchWaiting
    /\ IF \A i \in 1..Len(typeResolversMap) : ValidEntry(typeResolversMap[i])
       THEN /\ gqcTypeResolvers' = typeResolversMap
            /\ lastOp' = Op("setTypeResolvers", [map |-> typeResolversMap], "none")
       ELSE /\ UNCHANGED gqcTypeResolvers
            /\ lastOp' = Op("setTypeResolvers", [map |-> typeResolversMap],
                            "InvalidResolverEntry")
    /\ UNCHANGED <<fieldOrder, gqcFields, gqcRelations, calls, sink, argObjs,
                   inputVars, dispatch, cloneVars>>

\* addTypeResolver(type, checkFn)
AddTypeResolver(type, checkFn) ==
    /\ NoDispatchWaiting
    /\ IF checkFn \in CheckFns
       THEN /\ gqcTypeResolvers' = MapSet(gqcTypeResolvers, type, checkFn)
            /\ lastOp' = Op("addTypeResolver",
                            [type |-> type, checkFn |-> checkFn,
                             replaced |-> IF EntryOf(gqcTypeResolvers, type) # 0
                                          THEN GetTypeResolverCheckFn(gqcTypeResolvers, type)
                                          ELSE NoCheckFn],
                            "none")
       ELSE /\ UNCHANGED gqcTypeResolvers
            /\ lastOp' = Op("addTypeResolver",
                            [type |-> type, checkFn |-> checkFn, replaced |-> NoCheckFn],
                            "NoCheckFn")
    /\ UNCHANGED <<fieldOrder, gqcFields, gqcRelations, calls, sink, argObjs,
                   inputVars, dispatch, cloneVars>>

\* removeTypeResolver(type)
RemoveTypeResolver(type) ==
    /\ NoDispatchWaiting
    /\ gqcTypeResolvers' = MapDelete(gqcTypeResolvers, type)
    /\ lastOp' = Op("removeTypeResolver", [type |-> type], "none")
    /\ UNCHANGED <<fieldOrder, gqcFields, gqcRelations, calls, sink, argObjs,
                   inputVars, dispatch, cloneVars>>

\* the call has returned: result is the value, or what the promise resolved to
Done(evaluated, promise, result) ==
    [pc |-> "done", evaluated |-> evaluated, promise |-> promise, result |-> result]

\* the call waits for the promise of the check function it evaluated last
Awaiting(evaluated, i) ==
    [pc |-> "awaiting", evaluated |-> evaluated, awaited |-> i, promise |-> TRUE]

\* the loop that calls every check function left as soon as one has
\* returned a promise
RECURSIVE Dispatch_Concurrent(_, _, _, _)
Dispatch_Concurrent(entries, i, evaluated, promise) ==
    IF i > Len(entries) THEN Done(evaluated, promise, Null)
    ELSE LET checkFn == entries[i].checkFn
             called == Append(evaluated, i)
         IN  IF checkFn.mode = "async"
             THEN Awaiting(evaluated \o [k \in 1..(Len(entries) - i + 1) |-> i + k - 1], i)
             ELSE IF checkFn.result
                  THEN Done(called, promise, entries[i].type)
                  ELSE Dispatch_Concurrent(entries, i + 1, called, promise)

\* The loop of the compiled dispatch function from the entry i on: each check
\* function is called in turn; one that returns a promise is waited for,
\* which makes the result of the call a promise; the type of the first entry
\* whose check function yields a truthy value is the result, null without one.
RECURSIVE Dispatch(_, _, _, _)
Dispatch(entries, i, evaluated, promise) ==
    IF i > Len(entries) THEN Done(evaluated, promise, Null)
    ELSE LET checkFn == entries[i].checkFn
             called == Append(evaluated, i)
         IN  IF checkFn.mode = "async"
             THEN Awaiting(called, i)
             ELSE IF checkFn.result
                  THEN Done(called, promise, entries[i].type)
                  ELSE Dispatch(entries, i + 1, called, promise)

\* resolveType(value, context, info) whose result is a promise in any case
ResolveType_AlwaysPromise ==
    /\ NoDispatchWaiting
    /\ dispatch' = Dispatch(gqcTypeResolvers, 1, <<>>, TRUE)
    /\ lastOp' = Op("resolveType", EmptyObj, "none")
    /\ UNCHANGED <<fieldOrder, gqcFields, gqcRelations, calls, sink, argObjs,
                   inputVars, gqcTypeResolvers, cloneVars>>

\* resolveType(value, context, info): a call of the compiled dispatch function
ResolveType ==
    /\ NoDispatchWaiting
    /\ dispatch' = Dispatch(gqcTypeResolvers, 1, <<>>, FALSE)
    /\ lastOp' = Op("resolveType", EmptyObj, "none")
    /\ UNCHANGED <<fieldOrder, gqcFields, gqcRelations, calls, sink, argObjs,
                   inputVars, gqcTypeResolvers, cloneVars>>

\* the promise of the check function awaited settles: a truthy value ends the
\* call with the type of that entry, another lets the loop go on
CheckSettles ==
    /\ dispatch.pc = "awaiting"
    /\ LET i == dispatch.awaited
       IN  dispatch' = IF gqcTypeResolvers[i].checkFn.result
                       THEN Done(dispatch.evaluated, TRUE, gqcTypeResolvers[i].type)
                       ELSE Dispatch(gqcTypeResolvers, i + 1, dispatch.evaluated, TRUE)
    /\ lastOp' = Op("checkSettles", EmptyObj, "none")
    /\ UNCHANGED <<fieldOrder, gqcFields, gqcRelations, calls, sink, argObjs,
                   inputVars, gqcTypeResolvers, cloneVars>>

\* the caller has the result of the call
ReturnType ==
    /\ dispatch.pc = "done"
    /\ dispatch' = [pc |-> "idle"]
    /\ lastOp' = Op("returnType", EmptyObj, "none")
    /\ UNCHANGED <<fieldOrder, gqcFields, gqcRelations, calls, sink, argObjs,
                   inputVars, gqcTypeResolvers, cloneVars>>

----------------------------------------------------------------------------
(* A type and its clone, as objects *)

\* In this part the field configs, their args maps, the argument configs and
\* the extensions are objects of a heap and are referred to by address, 0
\* for undefined; a type composer is a key of tcFields.

\* the addresses of the heap
MaxAddr == 15
Addrs == 1..MaxAddr

FreeObj == [kind |-> "free"]
FieldObj(type, args, extensions) ==
    [kind |-> "field", type |-> type, args |-> args, extensions |-> extensions]
ArgsObj(map) == [kind |-> "args", map |-> map]
ArgObj(type, extensions) == [kind |-> "arg", type |-> type, extensions |-> extensions]
BagObj(map) == [kind |-> "bag", map |-> map]

Range(f) == { f[x] : x \in DOMAIN f }

\* the objects one _gqcFields reaches
ReachOf(fields, h) ==
    LET D == Range(fields)
        A == { h[d].args : d \in D } \ {0}
        G == UNION { Range(h[a].map) : a \in A }
        E == ({ h[d].extensions : d \in D } \cup { h[g].extensions : g \in G }) \ {0}
    IN  D \cup A \cup G \cup E

\* the names of the fields and of the arguments in this part, in the order
\* in which the objects are numbered
CloneFieldSeq == <<"a">>
CloneArgSeq == <<"id">>

\* the addresses of the sequence q that are not 0, each once, in the order
\* of their first place in q
Firsts(q) ==
    LET at == { i \in 1..Len(q) : q[i] # 0 /\ \A j \in 1..(i - 1) : q[j] # q[i] }
    IN  [k \in 1..Cardinality(at) |->
            q[CHOOSE i \in at : Cardinality({ j \in at : j < i }) = k - 1]]

\* the objects one _gqcFields reaches, field by field: the field config, its
\* args map, each argument config and its extensions, the extensions
Visit(fields, h) ==
    LET OfArg(d, n) ==
            IF h[d].args = 0 \/ CloneArgSeq[n] \notin DOMAIN h[h[d].args].map
            THEN <<>>
            ELSE LET g == h[h[d].args].map[CloneArgSeq[n]]
                 IN  <<g, h[g].extensions>>
        OfField(n) ==
            IF CloneFieldSeq[n] \notin DOMAIN fields THEN <<>>
            ELSE LET d == fields[CloneFieldSeq[n]]
                 IN  <<d, h[d].args>> \o OfArg(d, 1) \o <<h[d].extensions>>
    IN  OfField(1)

\* Addresses are not observable: after a call the objects the type and the
\* clone reach are numbered anew in the order of Visit, and an object no
\* type reaches any more is collected.
Collect(tf, h) ==
    LET order == Firsts(Visit(tf["type"], h)
                        \o (IF "clone" \in DOMAIN tf THEN Visit(tf["clone"], h) ELSE <<>>))
        To(a) == IF a = 0 THEN 0 ELSE CHOOSE k \in 1..Len(order) : order[k] = a
        Moved(o) ==
            CASE o.kind = "field" -> FieldObj(o.type, To(o.args), To(o.extensions))
              [] o.kind = "args" -> ArgsObj([n \in DOMAIN o.map |-> To(o.map[n])])
              [] o.kind = "arg" -> ArgObj(o.type, To(o.extensions))
              [] OTHER -> o
    IN  [tcFields |-> [tc \in DOMAIN tf |-> [f \in DOMAIN tf[tc] |-> To(tf[tc][f])]],
         heap |-> [a \in Addrs |-> IF a <= Len(order) THEN Moved(h[order[a]])
                                                       ELSE FreeObj]]

\* the state of the type and the clone after a call
Stored(tf, h) ==
    /\ tcFields' = Collect(tf, h).tcFields
    /\ heap' = Collect(tf, h).heap

\* the k-th free address of a heap: where the k-th new object is put
NewIn(h, k) ==
    LET free == { a \in Addrs : h[a].kind = "free" }
    IN  CHOOSE a \in free : Cardinality({ b \in free : b < a }) = k - 1

\* fieldConfig.extensions || {}, as a map
ExtensionsAt(h, e) == IF e = 0 THEN EmptyObj ELSE h[e].map

\* The copy clone() makes of one field config at address d, with the new
\* objects from the k-th free address on, when the argument configs are not
\* copied: args: { ...fieldConfig.args }
CopyField_SharedArgConfigs(h, d) ==
    LET fc == h[d]
        nd == NewIn(h, 1)
        na == NewIn(h, 2)
        ne == NewIn(h, 3)
    IN  [addr |-> nd,
         heap |-> [a \in Addrs |->
                     CASE a = nd -> FieldObj(fc.type, IF fc.args = 0 THEN 0 ELSE na, ne)
                       [] a = na /\ fc.args # 0 -> ArgsObj(h[fc.args].map)
                       [] a = ne -> BagObj(ExtensionsAt(h, fc.extensions))
                       [] OTHER -> h[a]]]

\* The copy clone() makes of one field config at address d:
\* { ...fieldConfig,
\*   args: mapEachKey(fieldConfig.args, argConfig =>
\*           ({ ...argConfig, extensions: { ...argConfig.extensions } })),
\*   extensions: { ...fieldConfig.extensions } }
CopyField(h, d) ==
    LET fc == h[d]
        nd == NewIn(h, 1)
        na == NewIn(h, 2)
        ne == NewIn(h, 3)
        names == IF fc.args = 0 THEN {} ELSE DOMAIN h[fc.args].map
        nth == CHOOSE f \in [names -> 1..Cardinality(names)] :
                  \A x, y \in names : x # y => f[x] # f[y]
        ng == [n \in names |-> NewIn(h, 2 + 2 * nth[n])]
        nge == [n \in names |-> NewIn(h, 3 + 2 * nth[n])]
    IN  [addr |-> nd,
         heap |-> [a \in Addrs |->
                     CASE a = nd -> FieldObj(fc.type, IF fc.args = 0 THEN 0 ELSE na, ne)
                       [] a = na /\ fc.args # 0 -> ArgsObj(ng)
                       [] a = ne -> BagObj(ExtensionsAt(h, fc.extensions))
                       [] \E n \in names : a = ng[n] ->
                            LET n == CHOOSE n \in names : a = ng[n]
                                ac == h[h[fc.args].map[n]]
                            IN  ArgObj(ac.type, nge[n])
                       [] \E n \in names : a = nge[n] ->
                            LET n == CHOOSE n \in names : a = nge[n]
                                ac == h[h[fc.args].map[n]]
                            IN  BagObj(ExtensionsAt(h, ac.extensions))
                       [] OTHER -> h[a]]]

\* mapEachKey(this._gqcFields, fieldConfig => ...): a new map with a copy
\* for every key
RECURSIVE CloneFields(_, _, _, _)
CloneFields(todo, fields, cloned, h) ==
    IF todo = {} THEN [fields |-> cloned, heap |-> h]
    ELSE LET f == CHOOSE f \in todo : TRUE
             c == CopyField(h, fields[f])
         IN  CloneFields(todo \ {f}, fields, Assign(cloned, f, c.addr), c.heap)

\* what a call in this part leaves as it is
NotCloned ==
    <<fieldOrder, gqcFields, gqcRelations, calls, sink, argObjs, inputVars, resolverVars>>

\* clone(newTypeName)
Clone ==
    /\ NoCallStarted
    /\ DOMAIN tcFields = {"type"}
    /\ LET c == CloneFields(DOMAIN tcFields["type"], tcFields["type"], EmptyObj, heap)
           tf == [tc \in {"type", "clone"} |->
                    IF tc = "type" THEN tcFields["type"] ELSE c.fields]
       IN  Stored(tf, c.heap)
    /\ lastOp' = Op("clone", [tc |-> "type"], "none")
    /\ UNCHANGED NotCloned

\* setField(fieldName, { type: Int, args: { id: { type: Int } },
\*                       extensions: { k1: p1 } }) on the type or the clone
SetFieldOf(tc, fieldName) ==
    /\ NoCallStarted
    /\ tc \in DOMAIN tcFields
    /\ LET d == NewIn(heap, 1)
           a == NewIn(heap, 2)
           g == NewIn(heap, 3)
           e == NewIn(heap, 4)
           h == [heap EXCEPT ![d] = FieldObj(<<"Int">>, a, e),
                             ![a] = ArgsObj([x \in {"id"} |-> g]),
                             ![g] = ArgObj(<<"Int">>, 0),
                             ![e] = BagObj([x \in {"k1"} |-> "p1"])]
           tf == [tcFields EXCEPT ![tc] = Assign(@, fieldName, d)]
       IN  Stored(tf, h)
    /\ lastOp' = Op("setField", [tc |-> tc], "none")
    /\ UNCHANGED NotCloned

\* removeField(fieldName) on the type or the clone
RemoveFieldOf(tc, fieldName) ==
    /\ NoCallStarted
    /\ tc \in DOMAIN tcFields
    /\ LET tf == [tcFields EXCEPT ![tc] = Delete(@, fieldName)]
       IN  Stored(tf, heap)
    /\ lastOp' = Op("removeField", [tc |-> tc], "none")
    /\ UNCHANGED NotCloned

\* setField(fieldName, { ...field, type, extensions }) as extendField and
\* setFieldExtensions call it: a new field config that has the args of the
\* one before and the extensions given
ReplaceField(tc, fieldName, type, extensions) ==
    LET prev == heap[tcFields[tc][fieldName]]
        d == NewIn(heap, 1)
        e == NewIn(heap, 2)
        h == [heap EXCEPT ![d] = FieldObj(type, prev.args, e),
                          ![e] = BagObj(extensions)]
        tf == [tcFields EXCEPT ![tc] = Assign(@, fieldName, d)]
    IN  Stored(tf, h)

\* extendField(fieldName, { type: Int! }) on the type or the clone
ExtendFieldOf(tc, fieldName) ==
    /\ NoCallStarted
    /\ tc \in DOMAIN tcFields
    /\ IF ~HasField(tcFields[tc], fieldName)
       THEN /\ UNCHANGED cloneVars
            /\ lastOp' = Op("extendField", [tc |-> tc], "CannotExtend")
       ELSE /\ ReplaceField(tc, fieldName, <<"NonNull", "Int">>,
                    ExtensionsAt(heap, heap[tcFields[tc][fieldName]].extensions))
            /\ lastOp' = Op("extendField", [tc |-> tc], "none")
    /\ UNCHANGED NotCloned

\* makeFieldNonNull(fieldName), makeFieldNullable(fieldName) on the type or
\* the clone: fc.type is assigned on the field config the map refers to
MakeFieldTypeOf(tc, method, fieldName) ==
    /\ NoCallStarted
    /\ tc \in DOMAIN tcFields
    /\ heap' = IF HasField(tcFields[tc], fieldName)
               THEN [heap EXCEPT ![tcFields[tc][fieldName]].type = NewType(method, @)]
               ELSE heap
    /\ lastOp' = Op(method, [tc |-> tc], "none")
    /\ UNCHANGED tcFields
    /\ UNCHANGED NotCloned

\* the address of the argument config of a field, 0 when there is none
ArgAt(h, fields, fieldName, argName) ==
    IF ~HasField(fields, fieldName) \/ h[fields[fieldName]].args = 0 THEN 0
    ELSE LET args == h[h[fields[fieldName]].args].map
         IN  IF argName \in DOMAIN args THEN args[argName] ELSE 0

\* makeFieldArgNonNull(fieldName, argName), makeFieldArgNullable(fieldName,
\* argName) on the type or the clone: ac.type is assigned on the argument
\* config the args map refers to
MakeFieldArgTypeOf(tc, method, fieldName, argName) ==
    /\ NoCallStarted
    /\ tc \in DOMAIN tcFields
    /\ IF ~HasField(tcFields[tc], fieldName)
       THEN /\ UNCHANGED heap
            /\ lastOp' = Op(method, [tc |-> tc], "CannotGetField")
       ELSE /\ heap' = LET g == ArgAt(heap, tcFields[tc], fieldName, argName)
                       IN  IF g = 0 THEN heap
                           ELSE [heap EXCEPT ![g].type = NewArgType(method, @)]
            /\ lastOp' = Op(method, [tc |-> tc], "none")
    /\ UNCHANGED tcFields
    /\ UNCHANGED NotCloned

\* removeFieldArg(fieldName, argName) on the type or the clone: delete on
\* the args map the field config refers to
RemoveFieldArgOf(tc, fieldName, argName) ==
    /\ NoCallStarted
    /\ tc \in DOMAIN tcFields
    /\ LET h == IF HasField(tcFields[tc], fieldName)
                   /\ heap[tcFields[tc][fieldName]].args # 0
                THEN [heap EXCEPT ![heap[tcFields[tc][fieldName]].args].map =
                                      Delete(@, argName)]
                ELSE heap
       IN  Stored(tcFields, h)
    /\ lastOp' = Op("removeFieldArg", [tc |-> tc], "none")
    /\ UNCHANGED NotCloned

\* setFieldExtension(fieldName, extensionName, value) on the type or the
\* clone, by extendFieldExtensions and setFieldExtensions
SetFieldExtensionOf(tc, fieldName, extensionName, value) ==
    /\ NoCallStarted
    /\ tc \in DOMAIN tcFields
    /\ IF ~HasField(tcFields[tc], fieldName)
       THEN /\ UNCHANGED cloneVars
            /\ lastOp' = Op("setFieldExtension", [tc |-> tc], "CannotGetField")
       ELSE /\ LET fc == heap[tcFields[tc][fieldName]]
               IN  ReplaceField(tc, fieldName, fc.type,
                       Spread(ExtensionsAt(heap, fc.extensions),
                              [x \in {extensionName} |-> value]))
            /\ lastOp' = Op("setFieldExtension", [tc |-> tc], "none")
    /\ UNCHANGED NotCloned

\* removeFieldExtension(fieldName, extensionName) on the type or the clone
RemoveFieldExtensionOf(tc, fieldName, extensionName) ==
    /\ NoCallStarted
    /\ tc \in DOMAIN tcFields
    /\ IF ~HasField(tcFields[tc], fieldName)
       THEN /\ UNCHANGED cloneVars
            /\ lastOp' = Op("removeFieldExtension", [tc |-> tc], "CannotGetField")
       ELSE /\ LET fc == heap[tcFields[tc][fieldName]]
               IN  ReplaceField(tc, fieldName, fc.type,
                       Delete(ExtensionsAt(heap, fc.extensions), extensionName))
            /\ lastOp' = Op("removeFieldExtension", [tc |-> tc], "none")
    /\ UNCHANGED NotCloned

\* setFieldArg(fieldName, argName, { ...ac, extensions }) as
\* setFieldArgExtensions calls it: a new argument config is assigned in the
\* args map of the field config
ReplaceFieldArg(tc, fieldName, argName, extensions) ==
    LET a == heap[tcFields[tc][fieldName]].args
        ac == heap[heap[a].map[argName]]
        g == NewIn(heap, 1)
        e == NewIn(heap, 2)
        h == [heap EXCEPT ![a].map = Assign(@, argName, g),
                          ![g] = ArgObj(ac.type, e),
                          ![e] = BagObj(extensions)]
    IN  Stored(tcFields, h)

\* setFieldArgExtension(fieldName, argName, extensionName, value) on the type
\* or the clone; getFieldArg throws without the field or the argument
SetFieldArgExtensionOf(tc, fieldName, argName, extensionName, value) ==
    /\ NoCallStarted
    /\ tc \in DOMAIN tcFields
    /\ LET g == ArgAt(heap, tcFields[tc], fieldName, argName)
       IN  IF g = 0
           THEN /\ UNCHANGED cloneVars
                /\ lastOp' = Op("setFieldArgExtension", [tc |-> tc], "CannotGetArg")
           ELSE /\ ReplaceFieldArg(tc, fieldName, argName,
                        Spread(ExtensionsAt(heap, heap[g].extensions),
                               [x \in {extensionName} |-> value]))
                /\ lastOp' = Op("setFieldArgExtension", [tc |-> tc], "none")
    /\ UNCHANGED NotCloned

\* removeFieldArgExtension(fieldName, argName, extensionName) on the type or
\* the clone
RemoveFieldArgExtensionOf(tc, fieldName, argName, extensionName) ==
    /\ NoCallStarted
    /\ tc \in DOMAIN tcFields
    /\ LET g == ArgAt(heap, tcFields[tc], fieldName, argName)
       IN  IF g = 0
           THEN /\ UNCHANGED cloneVars
                /\ lastOp' = Op("removeFieldArgExtension", [tc |-> tc], "CannotGetArg")
           ELSE /\ ReplaceFieldArg(tc, fieldName, argName,
                        Delete(ExtensionsAt(heap, heap[g].extensions), extensionName))
                /\ lastOp' = Op("removeFieldArgExtension", [tc |-> tc], "none")
    /\ UNCHANGED NotCloned

----------------------------------------------------------------------------
(* Specifications *)

\* a type composer created by name: no fields, no relations
Init ==
    /\ fieldOrder = <<>>
    /\ gqcFields = EmptyObj
    /\ gqcRelations = EmptyObj
    /\ lastOp = Op("create", EmptyObj, "none")
    /\ calls = [s \in Slots |-> IdleCall]
    /\ sink = [s \in Slots |-> <<>>]
    /\ argObjs = SharedArgObjs
    /\ gqcInputTypeComposer = 0
    /\ itcs = <<>>
    /\ gqcTypeResolvers = <<>>
    /\ dispatch = [pc |-> "idle"]
    /\ heap = [a \in Addrs |-> FreeObj]
    /\ tcFields = [tc \in {"type"} |-> EmptyObj]

\* The field store: setField, removeField, deprecateFields
FieldsNext ==
    \/ \E fieldName \in FieldNames, fieldConfig \in PlainConfigs :
          SetField(fieldName, fieldConfig)
    \/ \E fieldName \in FieldNames : RemoveField(fieldName)
    \/ \E arg \in DeprecateArgs : DeprecateFields(arg)

SpecFields == Init /\ [][FieldsNext]_vars

\* The relation opts addRelation is called with while relations are compiled,
\* on one field: every way of mapping the arguments of a resolver, every way
\* of giving the metadata on the opts and on the resolver, and every
\* combination of resolver, type and resolve.
RelationField == "a"

CompilePrepVals == {PrepUndefined, PrepNull, PrepFnSourceId, PrepStatic}

\* the resolvers whose metadata is fully given
DescribedResolvers ==
    { r \in Resolvers : /\ r.hasResolve
                        /\ r.description # Undefined
                        /\ r.deprecationReason # Undefined }

\* the resolvers with both arguments
TwoArgResolvers ==
    { r \in Resolvers : r.hasResolve /\ DOMAIN r.args = {"id", "limit"} }

PlainOpts(ref, prep, descr, depr) ==
    MakeOpts(ref, Undefined, Undefined, prep, descr, depr, Undefined, Undefined)

CompileOpts ==
    { PlainOpts([form |-> form, target |-> r], prep, Undefined, Undefined) :
        form \in {"value", "thunk"}, r \in DescribedResolvers,
        prep \in PrepareArgsOver(CompilePrepVals) }
    \cup
    { PlainOpts([form |-> form, target |-> r], EmptyObj, descr, depr) :
        form \in {"value", "thunk"}, r \in TwoArgResolvers,
        descr \in {Undefined, "relation description"},
        depr \in {Undefined, "relation deprecated"} }
    \cup
    { MakeOpts(ref, type, resolve, EmptyObj, Undefined, Undefined, Undefined, Undefined) :
        ref \in { x \in ResolverRefs :
                    x.target \in (DescribedResolvers \cap TwoArgResolvers) \cup {NotAResolver} },
        type \in {Undefined, "Post"}, resolve \in {Undefined, "function"} }

CompileNext ==
    \/ \E opts \in CompileOpts : AddRelation(RelationField, opts)
    \/ GetFieldConfig(RelationField)

SpecCompile == Init /\ [][CompileNext]_vars

\* The relation opts addRelation is called with before requests are resolved:
\* a Resolver with both arguments, with or without a resolve function, every
\* prepareArgs over its arguments and every catchErrors.
RuntimeResolvers ==
    { r \in Resolvers : /\ DOMAIN r.args = {"id", "limit"}
                        /\ r.description = Undefined
                        /\ r.deprecationReason = Undefined }

RuntimeOpts ==
    { MakeOpts([form |-> "value", target |-> r], Undefined, Undefined, prep,
               Undefined, Undefined, ce, Undefined) :
        r \in RuntimeResolvers, prep \in PrepareArgsOver(PrepVals),
        ce \in CatchErrorsVals }

\* One relation field and one invocation of its resolve function at a time
ResolveNext ==
    \/ \E opts \in RuntimeOpts : AddRelation(RelationField, opts)
    \/ \E source \in Sources, args \in ArgBags, outcome \in DelegateOutcomes :
          Call(1, RelationField, source, args, outcome)
    \/ \E v \in Vals : Settle(1, "fulfilled", v)
    \/ \E e \in Errors : Settle(1, "rejected", e)
    \/ Reaction(1)

SpecResolve == Init /\ [][ResolveNext]_vars

\* Relation fields of one type resolved concurrently for one payload: the
\* relations differ in catchErrors, every invocation gets the same source.
ConcurrentOpts ==
    { o \in RuntimeOpts : o.prepareArgs = EmptyObj /\ o.resolver.target.hasResolve }

SamePayload(source) ==
    \A s \in Slots : calls[s].pc # "idle" => calls[s].source = source

ConcurrentNext ==
    \/ \E fieldName \in FieldNames, opts \in ConcurrentOpts : AddRelation(fieldName, opts)
    \/ \E s \in Slots, fieldName \in FieldNames, source \in Sources,
          outcome \in DelegateOutcomes :
          SamePayload(source) /\ Call(s, fieldName, source, EmptyObj, outcome)
    \/ \E s \in Slots, v \in Vals : Settle(s, "fulfilled", v)
    \/ \E s \in Slots, e \in Errors : Settle(s, "rejected", e)
    \/ \E s \in Slots : Reaction(s)

SpecConcurrent == Init /\ [][ConcurrentNext]_vars

\* The types of fields: setField with a type of every shape, and the four
\* wrapping methods on every array of names.
TypedConfigs == { [k \in {"type"} |-> t] : t \in TypeComposers("Int") }

\* one name, two fields, and a name of no field before a field
TypeNameSeqs == { <<"a">>, <<"a", "b">>, <<UnknownName, "a">> }

TypesNext ==
    \/ \E fieldName \in FieldNames, fieldConfig \in TypedConfigs :
          SetField(fieldName, fieldConfig)
    \/ \E fieldNames \in TypeNameSeqs : MakeFieldNonNull(fieldNames)
    \/ \E fieldNames \in TypeNameSeqs : MakeFieldNullable(fieldNames)
    \/ \E fieldNames \in TypeNameSeqs : MakeFieldPlural(fieldNames)
    \/ \E fieldNames \in TypeNameSeqs : MakeFieldNonPlural(fieldNames)

SpecTypes == Init /\ [][TypesNext]_vars

\* The arguments of a relation field: relations to the shared resolver with
\* every way of hiding its arguments, and the calls that change the arguments
\* of the field in place.
ArgsField == "b"

SharedOpts ==
    { PlainOpts([form |-> "value", target |-> SharedResolver], prep,
                Undefined, Undefined) :
        prep \in PrepareArgsOver({PrepNull}) }

ArgNameSeqs ==
    { <<a>> : a \in ArgNames \cup {UnknownName} } \cup { <<"id", "limit">> }

ArgsNext ==
    \/ \E opts \in SharedOpts : AddRelation(ArgsField, opts)
    \/ \E f \in {ArgsField, UnknownName}, q \in ArgNameSeqs : RemoveFieldArg(f, q)
    \/ \E f \in {ArgsField, UnknownName}, q \in ArgNameSeqs : RemoveFieldOtherArgs(f, q)
    \/ \E f \in {ArgsField, UnknownName}, q \in ArgNameSeqs : MakeFieldArgNonNull(f, q)
    \/ \E f \in {ArgsField, UnknownName}, q \in ArgNameSeqs : MakeFieldArgNullable(f, q)
    \/ \E f \in {ArgsField, UnknownName}, q \in ArgNameSeqs : MakeFieldArgPlural(f, q)
    \/ \E f \in {ArgsField, UnknownName}, q \in ArgNameSeqs : MakeFieldArgNonPlural(f, q)

SpecArgs == Init /\ [][ArgsNext]_vars

\* The wrapping methods on one relation field and on its arguments
WrapOpts ==
    PlainOpts([form |-> "value", target |-> SharedResolver], EmptyObj,
              Undefined, Undefined)

WrappersNext ==
    \/ AddRelation(ArgsField, WrapOpts)
    \/ MakeFieldNonNull(<<ArgsField>>)
    \/ MakeFieldNullable(<<ArgsField>>)
    \/ MakeFieldPlural(<<ArgsField>>)
    \/ MakeFieldNonPlural(<<ArgsField>>)
    \/ \E a \in ArgNames : MakeFieldArgNonNull(ArgsField, <<a>>)
    \/ \E a \in ArgNames : MakeFieldArgNullable(ArgsField, <<a>>)
    \/ \E a \in ArgNames : MakeFieldArgPlural(ArgsField, <<a>>)
    \/ \E a \in ArgNames : MakeFieldArgNonPlural(ArgsField, <<a>>)

SpecWrappers == Init /\ [][WrappersNext]_vars

\* The order of the fields: three fields set and removed in any order, and
\* reorderFields with every array of at most two names, with every order of
\* the three fields, and with arrays that repeat a name around a name of no
\* field.
OrderNames == {"a", "b", "c"}

ReorderSeqs ==
    UNION { [1..n -> OrderNames \cup {UnknownName}] : n \in 0..2 }
    \cup { q \in [1..3 -> OrderNames] : \A i, j \in 1..3 : i # j => q[i] # q[j] }
    \cup { <<n, UnknownName, n>> : n \in OrderNames }

OrderNext ==
    \/ \E fieldName \in OrderNames, fieldConfig \in PlainConfigs :
          SetField(fieldName, fieldConfig)
    \/ \E fieldName \in OrderNames : RemoveField(fieldName)
    \/ \E names \in ReorderSeqs : ReorderFields(names)

SpecOrder == Init /\ [][OrderNext]_vars

\* Descriptors: setField, addFields, extendField and removeField on fields
\* whose descriptors carry a description and extensions
RichConfig ==
    [k \in {"type", "description", "extensions"} |->
        CASE k = "type" -> "String"
          [] k = "description" -> "old"
          [] OTHER -> [x \in {"k1"} |-> "p1"]]

DescriptorConfigs == { [k \in {"type"} |-> "String"], RichConfig }

\* the partial configs extendField is called with: plain keys only, an
\* extension that meets one of RichConfig, an extension of its own
Partials ==
    { [k \in {"description"} |-> "new"],
      [k \in {"type", "extensions"} |->
          IF k = "type" THEN "Int" ELSE [x \in {"k1"} |-> "q1"]],
      [k \in {"extensions"} |-> [x \in {"k2"} |-> "q2"]] }

\* the maps addFields is called with: keys in order, a config for each
FieldMaps ==
    { [keys |-> q, newFields |-> m] :
        q \in { <<"a">>, <<"b">>, <<"a", "b">>, <<"b", "a">> },
        m \in UNION { [D -> DescriptorConfigs] : D \in SUBSET FieldNames } }

DescriptorsNext ==
    \/ \E fieldName \in FieldNames, fieldConfig \in DescriptorConfigs :
          SetField(fieldName, fieldConfig)
    \/ \E fm \in FieldMaps :
          /\ DOMAIN fm.newFields = { fm.keys[i] : i \in 1..Len(fm.keys) }
          /\ AddFields(fm.keys, fm.newFields)
    \/ \E fieldName \in AllNames, partial \in Partials :
          ExtendField(fieldName, partial)
    \/ \E fieldName \in FieldNames : RemoveField(fieldName)

SpecDescriptors == Init /\ [][DescriptorsNext]_vars

\* The input type composer of a type whose fields are set and removed
InputNext ==
    \/ \E fieldName \in FieldNames : SetField(fieldName, [k \in {"type"} |-> "String"])
    \/ \E fieldName \in FieldNames : RemoveField(fieldName)
    \/ GetInputTypeComposer
    \/ HasInputTypeComposer
    \/ \E itc \in 1..MaxInstances : SetInputTypeComposer(itc)
    \/ RemoveInputTypeComposer

SpecInput == Init /\ [][InputNext]_vars

\* The type-resolver table: the maps setTypeResolvers is called with are the
\* tables of at most two entries, a table of three, and two maps with an
\* entry that is not valid
TypeSeqs ==
    { q \in UNION { [1..n -> ResolverTypes] : n \in 0..2 } :
        \A i, j \in 1..Len(q) : i # j => q[i] # q[j] }

ResolversMaps ==
    { [i \in 1..Len(q) |-> Entry(q[i], f[i])] :
        q \in TypeSeqs, f \in [1..2 -> CheckFns] }
    \cup { << Entry("Person", CheckFn("sync", FALSE)),
              Entry("KindRed", CheckFn("async", TRUE)),
              Entry("KindBlue", CheckFn("sync", TRUE)) >>,
           << Entry(UnresolvableType, CheckFn("sync", TRUE)) >>,
           << Entry("Person", NotCallable) >> }

ResolversNext ==
    \/ \E m \in ResolversMaps : SetTypeResolvers(m)
    \/ \E type \in ResolverTypes, checkFn \in CheckFns \cup {NoCheckFn} :
          AddTypeResolver(type, checkFn)
    \/ \E type \in ResolverTypes : RemoveTypeResolver(type)
    \/ ResolveType
    \/ CheckSettles
    \/ ReturnType

SpecResolvers == Init /\ [][ResolversNext]_vars

\* A type and its clone: one field, one argument, one extension name
CloneField == "a"
Composers == {"type", "clone"}

CloneNext ==
    \/ Clone
    \/ \E tc \in Composers : SetFieldOf(tc, CloneField)
    \/ \E tc \in Composers : RemoveFieldOf(tc, CloneField)
    \/ \E tc \in Composers : ExtendFieldOf(tc, CloneField)
    \/ \E tc \in Composers, method \in {"makeFieldNonNull", "makeFieldNullable"} :
          MakeFieldTypeOf(tc, method, CloneField)
    \/ \E tc \in Composers, method \in {"makeFieldArgNonNull", "makeFieldArgNullable"} :
          MakeFieldArgTypeOf(tc, method, CloneField, "id")
    \/ \E tc \in Composers : RemoveFieldArgOf(tc, CloneField, "id")
    \/ \E tc \in Composers : SetFieldExtensionOf(tc, CloneField, "k1", "p1")
    \/ \E tc \in Composers : RemoveFieldExtensionOf(tc, CloneField, "k1")
    \/ \E tc \in Composers : SetFieldArgExtensionOf(tc, CloneField, "id", "k1", "p1")
    \/ \E tc \in Composers : RemoveFieldArgExtensionOf(tc, CloneField, "id", "k1")

SpecClone == Init /\ [][CloneNext]_vars

----------------------------------------------------------------------------
(* Claims about the field store (SpecFields) *)

DeprecationReasonOf(fields, fieldName) == Get(fields[fieldName], "deprecationReason")

\* the call of deprecateFields a step makes names a field that does not exist
DeprecatesUnknown ==
    /\ lastOp'.op = "deprecateFields"
    /\ \E i \in 1..Len(lastOp'.arg.names) : lastOp'.arg.names[i] \notin DOMAIN gqcFields

\* C1: a call of deprecateFields that names a field that does not exist fails
\* with the unknown-field error and leaves the deprecationReason of every
\* field as it was before the call, the fields named before the unknown one
\* included.
C1_DeprecateFieldsAtomic ==
    [][DeprecatesUnknown =>
          /\ lastOp'.err = "CannotDeprecate"
          /\ \A f \in DOMAIN gqcFields :
                /\ f \in DOMAIN gqcFields'
                /\ DeprecationReasonOf(gqcFields', f) = DeprecationReasonOf(gqcFields, f)]_vars

----------------------------------------------------------------------------
(* Claims about the compilation of relations (SpecCompile) *)

\* The step runs _relationWithResolverToFC: addRelation with a resolver that
\* is no function, or the first read of a thunked field config.
CompilesByAdd ==
    /\ lastOp'.op = "addRelation"
    /\ gqcRelations'[lastOp'.arg.fieldName].resolver.form = "value"

CompilesByRead ==
    /\ lastOp'.op = "getFieldConfig"
    /\ HasField(gqcFields, lastOp'.arg.fieldName)
    /\ IsProxy(gqcFields[lastOp'.arg.fieldName])

Compiles == CompilesByAdd \/ CompilesByRead

\* the opts that step compiles, and the field config it leaves
CompiledOpts ==
    IF CompilesByAdd THEN gqcRelations'[lastOp'.arg.fieldName]
    ELSE gqcFields[lastOp'.arg.fieldName].thunk

CompiledFC == gqcFields'[lastOp'.arg.fieldName]

CompiledOk == Compiles /\ lastOp'.err = "none"

\* the argument set the claim gives for the opts
ExpectedExposed(opts) ==
    { a \in DOMAIN opts.resolver.target.args :
        \/ a \notin DOMAIN opts.prepareArgs
        \/ opts.prepareArgs[a].k = "undefined" }

\* C4: the exposed argument set of a compiled relation field is the delegate's
\* argument set minus the prepareArgs keys whose value is not undefined; a key
\* whose value is undefined, and an argument prepareArgs does not mention,
\* stay exposed.
C4_ExposedArgs ==
    [][CompiledOk => DOMAIN CompiledFC.args = ExpectedExposed(CompiledOpts)]_vars

\* a relation was compiled that hides "id" behind null and keeps "limit",
\* given as undefined, exposed
C4_Witness ==
    /\ lastOp.op = "addRelation" /\ lastOp.err = "none"
    /\ IsRelation(gqcFields, RelationField)
    /\ gqcRelations[RelationField].resolver.form = "value"
    /\ DOMAIN gqcRelations[RelationField].resolver.target.args = {"id", "limit"}
    /\ gqcRelations[RelationField].prepareArgs = [a \in {"id", "limit"} |->
            IF a = "id" THEN PrepNull ELSE PrepUndefined]
    /\ DOMAIN gqcFields[RelationField].args = {"limit"}

\* the value given on the relation opts when one is given, else the resolver's
GivenOrResolvers(opts, key) ==
    IF opts[key] # Undefined THEN opts[key] ELSE opts.resolver.target[key]

\* C9: the field config compiled from a relation has the delegate's declared
\* output type, and its description and its deprecationReason are those of
\* the relation opts when given and else those of the delegate resolver.
C9_CompiledMetadata ==
    [][CompiledOk =>
          /\ CompiledFC.type = CompiledOpts.resolver.target.type
          /\ CompiledFC.description = GivenOrResolvers(CompiledOpts, "description")
          /\ CompiledFC.deprecationReason =
                GivenOrResolvers(CompiledOpts, "deprecationReason")]_vars

\* the opts declare resolver together with type or resolve, or their resolver
\* is no Resolver
Conflicting(opts) ==
    \/ ~opts.resolver.target.isResolver
    \/ opts.type # Undefined
    \/ opts.resolve # Undefined

ExpectedErrors(opts) ==
    IF ~opts.resolver.target.isResolver THEN {"NotAResolver"}
    ELSE {"ResolverWithType", "ResolverWithResolve"}

\* C10: a compilation of a relation that declares resolver together with type
\* or with resolve, or whose resolver is not a Resolver, fails with the error
\* of that conflict and produces no field config for the field name: the
\* field store is left as it was.
C10_ConflictRejected ==
    [][(Compiles /\ Conflicting(CompiledOpts)) =>
          /\ lastOp'.err \in ExpectedErrors(CompiledOpts)
          /\ gqcFields' = gqcFields]_vars

\* the first read of a thunked relation that declares resolver and resolve
\* has failed, and the field holds no compiled config
C10_Witness ==
    /\ lastOp.op = "getFieldConfig" /\ lastOp.err = "ResolverWithResolve"
    /\ HasField(gqcFields, RelationField)
    /\ IsProxy(gqcFields[RelationField])
    /\ gqcFields[RelationField].thunk.resolve = "function"

\* the step is a call of addRelation whose opts have a resolver
AddsRelation(form) ==
    /\ lastOp'.op = "addRelation"
    /\ gqcRelations'[lastOp'.arg.fieldName].resolver.form = form

\* C11: addRelation with a resolver given as a thunk does not call the thunk:
\* the call ends without an error whatever the thunk would return, and the
\* field holds the uncompiled thunk of these opts; the first read of the field
\* config calls the thunk and leaves the compiled config.  addRelation with a
\* concrete resolver compiles during the call: it leaves the compiled config
\* or ends with the error of the compilation.
C11_ThunkCompiledOnFirstAccess ==
    [][/\ AddsRelation("thunk") =>
            /\ lastOp'.err = "none"
            /\ IsProxy(CompiledFC)
            /\ CompiledFC.thunk = gqcRelations'[lastOp'.arg.fieldName]
       /\ AddsRelation("value") =>
            /\ lastOp'.err = RelationWithResolverToFC(CompiledOpts).err
            /\ lastOp'.err = "none" =>
                  /\ ~IsProxy(CompiledFC)
                  /\ CompiledFC = RelationWithResolverToFC(CompiledOpts).fc
       /\ (CompilesByRead /\ lastOp'.err = "none") =>
            /\ ~IsProxy(CompiledFC)
            /\ CompiledFC = RelationWithResolverToFC(CompiledOpts).fc]_vars

\* a relation whose resolver is a thunk was added and stayed uncompiled, and
\* the first read of its field config has compiled it
C11_Witness ==
    /\ lastOp.op = "getFieldConfig" /\ lastOp.err = "none"
    /\ RelationField \in DOMAIN gqcRelations
    /\ gqcRelations[RelationField].resolver.form = "thunk"
    /\ IsRelation(gqcFields, RelationField)

----------------------------------------------------------------------------
(* Claims about the resolve function of a compiled relation (SpecResolve) *)

Returned(s) == calls[s].pc = "returned"

\* the relation opts the invoked field was compiled from
OptsOf(s) == gqcRelations[calls[s].field]

CatchesErrors(s) == OptsOf(s).catchErrors \in {Undefined, "true"}

HasDelegate(s) == OptsOf(s).resolver.target.hasResolve

\* the delegate threw during the call, or the promise it returned was rejected
FailedSync(s) == calls[s].payload.kind = "throw"
FailedAsync(s) == calls[s].payload.kind = "promise" /\ calls[s].inner.state = "rejected"
DelegateFailed(s) == FailedSync(s) \/ FailedAsync(s)

\* the failure of the delegate
FailureOf(s) == IF FailedSync(s) THEN calls[s].payload.v ELSE calls[s].inner.v

\* the delegate returned a value, or the promise it returned was fulfilled
DelegateSucceeded(s) ==
    \/ calls[s].payload.kind = "value"
    \/ calls[s].payload.kind = "promise" /\ calls[s].inner.state = "fulfilled"

ValueOf(s) ==
    IF calls[s].payload.kind = "value" THEN calls[s].payload.v ELSE calls[s].inner.v

\* the promise resolve returned, when it returned one
ReturnedPromise(s) ==
    IF calls[s].result.promise = "wrapped" THEN calls[s].outer ELSE calls[s].inner

\* what the caller of resolve ends with: a value or a throw at the return,
\* or the fulfilment or rejection of the promise it was given
Completed(s) ==
    /\ Returned(s)
    /\ calls[s].result.kind = "promise" => ReturnedPromise(s).state # "pending"

YieldsValue(s, v) ==
    /\ Completed(s)
    /\ \/ calls[s].result.kind \in {"value", "null"} /\ calls[s].result.v = v
       \/ /\ calls[s].result.kind = "promise"
          /\ ReturnedPromise(s) = [state |-> "fulfilled", v |-> v]

PropagatesFailure(s) ==
    \/ calls[s].result.kind = "throw"
    \/ calls[s].result.kind = "promise" /\ ReturnedPromise(s).state = "rejected"

\* C2: with catchErrors true or omitted, resolve never propagates a failure of
\* the delegate, thrown during the call or a rejected result, to its caller:
\* it yields null.
C2_FailureYieldsNull ==
    \A s \in Slots :
        (Returned(s) /\ CatchesErrors(s) /\ DelegateFailed(s)) =>
            /\ ~PropagatesFailure(s)
            /\ Completed(s) => YieldsValue(s, Null)

\* C3: the delegate receives no value for an argument whose prepareArgs entry
\* is null, whatever the caller passed in args.
C3_NullArgNotPassed ==
    \A s \in Slots :
        (Returned(s) /\ HasDelegate(s)) =>
            \A a \in DOMAIN OptsOf(s).prepareArgs :
                OptsOf(s).prepareArgs[a] = PrepNull => a \notin DOMAIN calls[s].delegateArgs

\* the argument names prepareArgs gives a function or a concrete value for
FnArgNames(opts) ==
    { a \in DOMAIN opts.prepareArgs : opts.prepareArgs[a].k \in {"fnSourceId", "fnArgsLimit"} }
StaticArgNames(opts) ==
    { a \in DOMAIN opts.prepareArgs : opts.prepareArgs[a].k = "static" }

\* args overlaid by every static override and then by what every mapper
\* returns for (source, args)
ExpectedBag(opts, source, args) ==
    [a \in (DOMAIN args) \cup StaticArgNames(opts) \cup FnArgNames(opts) |->
        IF a \in FnArgNames(opts)
        THEN (IF opts.prepareArgs[a].k = "fnSourceId" THEN source.id ELSE Get(args, "limit"))
        ELSE IF a \in StaticArgNames(opts) THEN StaticVal
        ELSE args[a]]

C6_NoCatchPassesThrough ==
    \A s \in Slots :
        (Returned(s) /\ ~CatchesErrors(s)) =>
            /\ calls[s].result.kind = calls[s].payload.kind
            /\ calls[s].result.v = calls[s].payload.v
            /\ calls[s].payload.kind = "promise" => calls[s].result.promise = "payload"
            /\ calls[s].outer = NoPromise
            /\ DelegateFailed(s) =>
                  /\ PropagatesFailure(s)
                  /\ FailedAsync(s) => ReturnedPromise(s).v = FailureOf(s)
            /\ sink[s] = <<>>

\* with catchErrors false the delegate's promise was returned and has been
\* rejected
C6_Witness ==
    \E s \in Slots :
        /\ Returned(s) /\ ~CatchesErrors(s) /\ HasDelegate(s)
        /\ FailedAsync(s)
        /\ calls[s].result.promise = "payload"

\* how often the sink received e
SinkCount(s, e) == Cardinality({ i \in 1..Len(sink[s]) : sink[s][i] = e })

\* C7: with catchErrors true, a completed invocation whose delegate failed has
\* invoked the error sink exactly once with the failure, and one whose
\* delegate succeeded has not invoked it.
C7_SinkOncePerFailure ==
    \A s \in Slots :
        (Completed(s) /\ CatchesErrors(s)) =>
            /\ DelegateFailed(s) => SinkCount(s, FailureOf(s)) = 1
            /\ DelegateSucceeded(s) => sink[s] = <<>>

----------------------------------------------------------------------------
(* Claims about relations resolved concurrently (SpecConcurrent) *)

\* the reaction of the promise resolve returned is due: what it waits for is
\* settled
ReactionDue(s) ==
    /\ Returned(s)
    /\ calls[s].outer.state = "pending"
    /\ Resolved(calls[s]).state # "pending"

\* s and t are invocations of two relation fields, both compiled with
\* catchErrors true
Siblings(s, t) ==
    /\ s # t
    /\ Returned(s) /\ Returned(t)
    /\ calls[s].field # calls[t].field
    /\ CatchesErrors(s) /\ CatchesErrors(t)

\* C8: of relation fields compiled with catchErrors true and resolved
\* concurrently for one payload, one whose delegate fails yields null, and
\* every sibling completes with its own delegate's result, in every
\* interleaving.
C8_SiblingsIndependent ==
    \A s, t \in Slots :
        (Siblings(s, t) /\ DelegateFailed(s)) =>
            /\ ~PropagatesFailure(s)
            /\ Completed(s) => YieldsValue(s, Null)
            /\ DelegateSucceeded(t) =>
                  /\ ~PropagatesFailure(t)
                  /\ Completed(t) => YieldsValue(t, ValueOf(t))
            /\ ReactionDue(t) => ENABLED Reaction(t)

----------------------------------------------------------------------------
(* Claims about the types of fields (SpecTypes) *)

NamedOnce(fieldNames, f) ==
    Cardinality({ i \in 1..Len(fieldNames) : fieldNames[i] = f }) = 1

\* the call that ran last is method, it names the existing field f once
AppliedOnce(method, f) ==
    /\ lastOp.op = method
    /\ f \in DOMAIN lastOp.arg.types
    /\ NamedOnce(lastOp.arg.names, f)

\* the type of f as that call found it, and as it is now
TypeBefore(f) == lastOp.arg.types[f]
TypeNow(f) == gqcFields[f].type

\* the step calls second on the names first was called on right before, and
\* these name the existing field f once
AppliedAfter(first, second, f) ==
    /\ lastOp.op = first
    /\ lastOp'.op = second
    /\ lastOp'.arg.names = lastOp.arg.names
    /\ f \in DOMAIN lastOp.arg.types
    /\ NamedOnce(lastOp.arg.names, f)

\* the type of f before first, and after second
TypeAtFirst(f) == lastOp.arg.types[f]
TypeAfterSecond(f) == gqcFields'[f].type

\* C13: makeFieldNullable applied after makeFieldNonNull restores the type w
\* the field had before the two calls, for every w, a w that is NonNull
\* included.
C13_NullableRestoresType ==
    [][\A f \in FieldNames :
          AppliedAfter("makeFieldNonNull", "makeFieldNullable", f) =>
             TypeAfterSecond(f) = TypeAtFirst(f)]_vars

\* C13 as amended: makeFieldNullable applied after makeFieldNonNull restores
\* the type w the field had when w is not NonNull; when w is NonNull(x), which
\* makeFieldNonNull leaves as it is, the field ends with the type x.
C13_NullableAfterNonNull ==
    [][\A f \in FieldNames :
          AppliedAfter("makeFieldNonNull", "makeFieldNullable", f) =>
             TypeAfterSecond(f) =
                IF IsNonNullComposer(TypeAtFirst(f))
                THEN OfType(TypeAtFirst(f)) ELSE TypeAtFirst(f)]_vars

\* makeFieldNullable('a') ran right after makeFieldNonNull('a') and has taken
\* the NonNull off a list
C13_Witness ==
    /\ AppliedOnce("makeFieldNullable", "a")
    /\ lastOp.arg.after = "makeFieldNonNull"
    /\ TypeBefore("a") = <<"NonNull", "List", "Int">>
    /\ TypeNow("a") = <<"List", "Int">>

\* C14: makeFieldNonPlural applied after makeFieldPlural leaves the field with
\* the type w it had before the two calls, for w a named type, NonNull(x),
\* List(x) and NonNull(List(x)).
C14_NonPluralRestoresType ==
    [][\A f \in FieldNames :
          AppliedAfter("makeFieldPlural", "makeFieldNonPlural", f) =>
             TypeAfterSecond(f) = TypeAtFirst(f)]_vars

\* C14 as amended: makeFieldNonPlural applied after makeFieldPlural leaves the
\* field with the type w it had before when w is not a List (a named type,
\* NonNull(x), NonNull(List(x))); when w is List(x), which makeFieldPlural
\* leaves as it is, the field ends with the type x.
C14_NonPluralAfterPlural ==
    [][\A f \in FieldNames :
          AppliedAfter("makeFieldPlural", "makeFieldNonPlural", f) =>
             TypeAfterSecond(f) =
                IF IsListComposer(TypeAtFirst(f))
                THEN OfType(TypeAtFirst(f)) ELSE TypeAtFirst(f)]_vars

\* makeFieldNonPlural('a') ran right after makeFieldPlural('a') and has taken
\* the list off a non-null element
C14_Witness ==
    /\ AppliedOnce("makeFieldNonPlural", "a")
    /\ lastOp.arg.after = "makeFieldPlural"
    /\ TypeBefore("a") = <<"List", "NonNull", "Int">>
    /\ TypeNow("a") = <<"NonNull", "Int">>

\* the type is NonNull(List(inner))
IsNonNullList(type) == IsNonNullComposer(type) /\ IsListComposer(OfType(type))

C16_NonPluralResult ==
    \A f \in FieldNames :
       AppliedOnce("makeFieldNonPlural", f) =>
          LET w == TypeBefore(f)
          IN  /\ IsListComposer(w) => TypeNow(f) = OfType(w)
              /\ (IsNonNullList(w) /\ IsNonNullComposer(OfType(OfType(w)))) =>
                     TypeNow(f) = OfType(OfType(w))
              /\ (IsNonNullList(w) /\ ~IsNonNullComposer(OfType(OfType(w)))) =>
                     TypeNow(f) = NonNullComposer(OfType(OfType(w)))
              /\ ~IsPlural(w) => TypeNow(f) = w
              /\ IsNonNullComposer(w) => IsNonNullComposer(TypeNow(f))

\* makeFieldNonPlural has taken the list off [Int!]! and left Int!, in a call
\* that also names a field that does not exist
C16_Witness ==
    /\ AppliedOnce("makeFieldNonPlural", "a")
    /\ lastOp.arg.names = <<UnknownName, "a">>
    /\ TypeBefore("a") = <<"NonNull", "List", "NonNull", "Int">>
    /\ TypeNow("a") = <<"NonNull", "Int">>

\* C17: makeFieldPlural leaves the type of a field that is plural, List(x) or
\* NonNull(List(x)), as it is, and wraps the type of a field that is not
\* plural in List.
C17_NoDoubleListWrap ==
    \A f \in FieldNames :
       AppliedOnce("makeFieldPlural", f) =>
          TypeNow(f) = IF IsPlural(TypeBefore(f)) THEN TypeBefore(f)
                       ELSE ListComposer(TypeBefore(f))

\* the type under the outermost list of a plural type
ElementOf(type) ==
    IF IsListComposer(type) THEN OfType(type) ELSE OfType(OfType(type))

\* C18: after makeFieldNonPlural on an existing field, isFieldPlural of the
\* field is false, whatever type the field had, types with more than one
\* list level included.
C18_NonPluralNotPlural ==
    \A f \in FieldNames :
       AppliedOnce("makeFieldNonPlural", f) => ~IsPlural(TypeNow(f))

\* C18 as amended: after makeFieldNonPlural on an existing field,
\* isFieldPlural of the field is false unless the element type of the field
\* was itself plural (List or NonNull(List)); then one list level is gone and
\* isFieldPlural is still true.
C18_NonPluralOneLevel ==
    \A f \in FieldNames :
       AppliedOnce("makeFieldNonPlural", f) =>
          (IsPlural(TypeNow(f)) <=>
              (IsPlural(TypeBefore(f)) /\ IsPlural(ElementOf(TypeBefore(f)))))

\* makeFieldNonPlural(['a', 'b']) has taken the list off the type [Int] of b
\* and the field is not plural
C18_Witness ==
    /\ AppliedOnce("makeFieldNonPlural", "b")
    /\ lastOp.arg.names = <<"a", "b">>
    /\ TypeBefore("b") = <<"List", "Int">>
    /\ ~IsPlural(TypeNow("b"))

----------------------------------------------------------------------------
(* Claims about the arguments of relation fields (SpecArgs, SpecWrappers) *)

\* the type of the argument argName of the resolver as it is now
ResolverArgType(resolver, argName) == argObjs[resolver.args[argName].ref].type

\* C12: the delegate resolver keeps its argument names and argument types
\* when a relation to it is compiled and when the arguments of the relation
\* field are changed in place (removeFieldArg, removeFieldOtherArgs,
\* makeFieldArgNonNull, makeFieldArgNullable, makeFieldArgPlural,
\* makeFieldArgNonPlural): every argument of the resolver has the type it was
\* created with.
C12_ResolverArgsNotShared ==
    /\ DOMAIN SharedResolver.args = ArgNames
    /\ \A a \in ArgNames :
          ResolverArgType(SharedResolver, a) =
             SharedArgObjs[SharedResolver.args[a].ref].type

\* C19: no type of a field and no type of an argument has a NonNull directly
\* around a NonNull, and makeFieldNonNull (makeFieldArgNonNull) on a type that
\* is NonNull leaves the type as it is.
C19_NoDoubleNonNull ==
    /\ \A f \in DOMAIN gqcFields : NoDoubleNonNull(gqcFields[f].type)
    /\ \A i \in DOMAIN argObjs : NoDoubleNonNull(argObjs[i].type)
    /\ \A f \in FieldNames :
          (AppliedOnce("makeFieldNonNull", f) /\ IsNonNullComposer(TypeBefore(f))) =>
             TypeNow(f) = TypeBefore(f)
    /\ \A a \in ArgNames :
          (AppliedOnce("makeFieldArgNonNull", a) /\ IsNonNullComposer(TypeBefore(a))) =>
             ResolverArgType(SharedResolver, a) = TypeBefore(a)

\* makeFieldNonNull('b') was called twice in a row, the second time on the
\* type [User]!, and the type is still [User]!
C19_Witness ==
    /\ AppliedOnce("makeFieldNonNull", ArgsField)
    /\ lastOp.arg.after = "makeFieldNonNull"
    /\ TypeBefore(ArgsField) = <<"NonNull", "List", "User">>
    /\ TypeNow(ArgsField) = <<"NonNull", "List", "User">>

----------------------------------------------------------------------------
(* Claims about the order of the fields (SpecOrder) *)

Elements(q) == { q[i] : i \in 1..Len(q) }

\* the first position of x in the sequence q
FirstIndex(q, x) ==
    CHOOSE i \in 1..Len(q) : q[i] = x /\ \A j \in 1..(i - 1) : q[j] # x

----------------------------------------------------------------------------
(* Descriptors *)

PlaceOf(order, name) == CHOOSE i \in 1..Len(order) : order[i] = name

\* C22: setField(name, def) leaves def as the whole descriptor of name,
\* nothing of the previous descriptor stays, and every other field is as
\* before; addFields(map) does so for each entry of map, and the fields map
\* does not mention and the relative order of the fields there were are as
\* before.
C22_SetFieldReplaces ==
    [][/\ lastOp'.op = "setField" =>
            LET f == lastOp'.arg.fieldName
            IN  /\ DOMAIN gqcFields' = (DOMAIN gqcFields) \cup {f}
                /\ gqcFields'[f] = lastOp'.arg.fieldConfig
                /\ \A g \in (DOMAIN gqcFields) \ {f} : gqcFields'[g] = gqcFields[g]
       /\ lastOp'.op = "addFields" =>
            LET m == lastOp'.arg.newFields
            IN  /\ DOMAIN gqcFields' = (DOMAIN gqcFields) \cup (DOMAIN m)
                /\ \A k \in DOMAIN m : gqcFields'[k] = m[k]
                /\ \A g \in (DOMAIN gqcFields) \ (DOMAIN m) : gqcFields'[g] = gqcFields[g]
                /\ \A i, j \in 1..Len(fieldOrder) :
                      i < j => PlaceOf(fieldOrder', fieldOrder[i])
                                  < PlaceOf(fieldOrder', fieldOrder[j])]_vars

\* addFields has given a plain descriptor to a field that had a description
\* and extensions, in a map that lists the fields in the other order
C22_Witness ==
    /\ lastOp.op = "addFields"
    /\ lastOp.arg.names = <<"b", "a">>
    /\ fieldOrder = <<"a", "b">>
    /\ {"description", "extensions"} \subseteq lastOp.arg.had["a"]
    /\ DOMAIN gqcFields["a"] = {"type"}
    /\ lastOp.arg.had["b"] # {}

----------------------------------------------------------------------------
(* Names that are no field *)

\* C23: makeFieldNonNull, makeFieldNullable, makeFieldPlural and
\* makeFieldNonPlural change only the fields that are named and exist: a name
\* of no field raises no error and creates no field, the named fields of the
\* same call get the new type, and the fields not named are as before.
C23_UnknownFieldSkipped ==
    [][lastOp'.op \in TypeMethods =>
         LET names == lastOp'.arg.names
         IN  /\ lastOp'.err = "none"
             /\ DOMAIN gqcFields' = DOMAIN gqcFields
             /\ fieldOrder' = fieldOrder
             /\ \A g \in DOMAIN gqcFields :
                   IF NamedOnce(names, g)
                   THEN gqcFields'[g] =
                           [gqcFields[g] EXCEPT !.type = NewType(lastOp'.op, @)]
                   ELSE gqcFields'[g] = gqcFields[g]]_vars

\* makeFieldPlural has been called with a name of no field and then the
\* field a: a is a list now, there is no new field
C23_Witness ==
    /\ lastOp.op = "makeFieldPlural"
    /\ lastOp.arg.names = <<UnknownName, "a">>
    /\ lastOp.err = "none"
    /\ DOMAIN gqcFields = {"a", "b"}
    /\ "a" \in DOMAIN lastOp.arg.types
    /\ ~IsPlural(lastOp.arg.types["a"])
    /\ gqcFields["a"].type = ListComposer(lastOp.arg.types["a"])

\* the names of the arguments a field has, none for a name of no field
ArgNamesOf(fields, fieldName) ==
    IF HasField(fields, fieldName) /\ HasArgs(fields[fieldName])
    THEN DOMAIN fields[fieldName].args ELSE {}

\* C24: makeFieldArgNonNull, makeFieldArgNullable, makeFieldArgPlural and
\* makeFieldArgNonPlural called with a field name that is no field, or with
\* argument names the field does not have, raise no error and change nothing.
C24_UnknownArgNamesSkipped ==
    [][(/\ lastOp'.op \in ArgTypeMethods
        /\ Elements(lastOp'.arg.names)
              \cap ArgNamesOf(gqcFields, lastOp'.arg.fieldName) = {})
         => /\ lastOp'.err = "none"
            /\ UNCHANGED <<fieldOrder, gqcFields, argObjs>>]_vars

----------------------------------------------------------------------------
(* A failed addRelation *)

\* C30: when addRelation fails (the resolver is not a Resolver, or a resolver
\* is declared together with type or resolve), the type is as before the
\* call: the fields have no new or changed entry and getRelations() has no
\* new or changed entry.
C30_FailedAddRelationLeavesType ==
    [][(lastOp'.op = "addRelation" /\ lastOp'.err # "none") =>
          /\ gqcFields' = gqcFields
          /\ fieldOrder' = fieldOrder
          /\ DOMAIN gqcRelations' = DOMAIN gqcRelations
          /\ gqcRelations' = gqcRelations]_vars

----------------------------------------------------------------------------
(* The input type composer *)

\* C29: getInputTypeComposer generates the input type composer when none is
\* held, with the fields the type has then, and returns the one held
\* otherwise; the one held stays until removeInputTypeComposer or
\* setInputTypeComposer is called; no call changes the fields of a composer
\* generated before; hasInputTypeComposer is true exactly while one is held.
C29_InputTypeComposerCached ==
    [][/\ lastOp'.op = "getInputTypeComposer" =>
            /\ gqcInputTypeComposer' = lastOp'.arg.returned
            /\ IF gqcInputTypeComposer # 0
               THEN /\ lastOp'.arg.returned = gqcInputTypeComposer
                    /\ Len(itcs') = Len(itcs)
               ELSE /\ lastOp'.arg.returned = Len(itcs) + 1
                    /\ Len(itcs') = Len(itcs) + 1
                    /\ itcs'[Len(itcs) + 1].fields = fieldOrder
       /\ lastOp'.op \notin {"getInputTypeComposer", "setInputTypeComposer",
                             "removeInputTypeComposer"} =>
            gqcInputTypeComposer' = gqcInputTypeComposer
       /\ \A i \in 1..Len(itcs) : itcs'[i] = itcs[i]
       /\ lastOp'.op = "hasInputTypeComposer" =>
            (lastOp'.arg.result <=> gqcInputTypeComposer \in 1..Len(itcs))]_vars

\* a composer was generated with the field a, b was added, the composer was
\* removed and generated anew: the first has a, the second a and b
C29_Witness ==
    /\ lastOp.op = "getInputTypeComposer"
    /\ lastOp.arg.held = 0
    /\ lastOp.arg.returned = 2
    /\ gqcInputTypeComposer = 2
    /\ Len(itcs) = 2
    /\ itcs[1].fields = <<"a">>
    /\ itcs[2].fields = <<"a", "b">>

----------------------------------------------------------------------------
(* The type-resolver table *)

\* the type of the first entry whose check function yields a truthy value,
\* null when there is none
Matching(entries) ==
    IF \E i \in 1..Len(entries) : entries[i].checkFn.result
    THEN entries[CHOOSE i \in 1..Len(entries) :
                    /\ entries[i].checkFn.result
                    /\ \A k \in 1..(i - 1) : ~entries[k].checkFn.result].type
    ELSE Null

\* C26: the dispatch function evaluates the check functions in insertion
\* order, also when one returns a promise: the one it waits for is the last
\* it has evaluated, every one evaluated before has yielded a falsy value,
\* the result is the type of the first entry whose check function yields a
\* truthy value, none after that entry is evaluated, and without a match
\* every one is evaluated and the result is null.
C26_DispatchInOrder ==
    dispatch.pc # "idle" =>
       LET n == Len(dispatch.evaluated)
       IN  /\ n <= Len(gqcTypeResolvers)
           /\ \A k \in 1..n : dispatch.evaluated[k] = k
           /\ \A k \in 1..(n - 1) : ~gqcTypeResolvers[k].checkFn.result
           /\ dispatch.pc = "awaiting" => dispatch.awaited = n
           /\ dispatch.pc = "done" =>
                 IF n > 0 /\ gqcTypeResolvers[n].checkFn.result
                 THEN dispatch.result = gqcTypeResolvers[n].type
                 ELSE n = Len(gqcTypeResolvers) /\ dispatch.result = Null

\* three entries, the first yields false at once, the second true as a
\* promise: the call has ended with the second type, the third check
\* function was not evaluated
C26_Witness ==
    /\ dispatch.pc = "done"
    /\ Len(gqcTypeResolvers) = 3
    /\ gqcTypeResolvers[1].checkFn = CheckFn("sync", FALSE)
    /\ gqcTypeResolvers[2].checkFn = CheckFn("async", TRUE)
    /\ gqcTypeResolvers[3].checkFn.result
    /\ dispatch.evaluated = <<1, 2>>
    /\ dispatch.result = gqcTypeResolvers[2].type

\* C27: when every check function of the table returns at once, the dispatch
\* function returns the matching type itself, no promise; when a check
\* function it evaluates returns a promise, its result is a promise, which
\* resolves to the matching type.
C27_SyncOrAsyncResult ==
    /\ dispatch.pc = "awaiting" => dispatch.promise
    /\ dispatch.pc = "done" =>
          /\ (\A i \in 1..Len(gqcTypeResolvers) :
                  gqcTypeResolvers[i].checkFn.mode = "sync")
                => (~dispatch.promise /\ dispatch.result = Matching(gqcTypeResolvers))
          /\ (\E k \in 1..Len(dispatch.evaluated) :
                  gqcTypeResolvers[dispatch.evaluated[k]].checkFn.mode = "async")
                => (dispatch.promise /\ dispatch.result = Matching(gqcTypeResolvers))

\* three check functions that return at once, the third yields true: the
\* call has returned the third type, no promise
C27_Witness ==
    /\ dispatch.pc = "done"
    /\ Len(gqcTypeResolvers) = 3
    /\ \A i \in 1..3 : gqcTypeResolvers[i].checkFn.mode = "sync"
    /\ ~gqcTypeResolvers[1].checkFn.result
    /\ ~gqcTypeResolvers[2].checkFn.result
    /\ ~dispatch.promise
    /\ dispatch.result = gqcTypeResolvers[3].type

\* C28: setTypeResolvers(map) makes map the table, and fails when a key of
\* map resolves to no object type or a value is no function;
\* addTypeResolver(type, checkFn) fails without a check function, and
\* otherwise getTypeResolverCheckFn(type) is checkFn, the table has one entry
\* for type, at the place of the entry type had, and the other entries are as
\* before.
C28_TableSetAndAdd ==
    [][/\ lastOp'.op = "setTypeResolvers" =>
            LET map == lastOp'.arg.map
            IN  IF \E i \in 1..Len(map) :
                      \/ map[i].type \notin ResolverTypes
                      \/ map[i].checkFn.mode \notin {"sync", "async"}
                THEN lastOp'.err # "none"
                ELSE lastOp'.err = "none" /\ gqcTypeResolvers' = map
       /\ lastOp'.op = "addTypeResolver" =>
            LET type == lastOp'.arg.type
                checkFn == lastOp'.arg.checkFn
                old == gqcTypeResolvers
                new == gqcTypeResolvers'
            IN  IF checkFn = NoCheckFn
                THEN lastOp'.err # "none"
                ELSE /\ lastOp'.err = "none"
                     /\ Cardinality({ i \in 1..Len(new) : new[i].type = type }) = 1
                     /\ GetTypeResolverCheckFn(new, type) = checkFn
                     /\ Len(new) = IF EntryOf(old, type) # 0 THEN Len(old)
                                                               ELSE Len(old) + 1
                     /\ \A i \in 1..Len(old) :
                           IF old[i].type = type THEN new[i] = Entry(type, checkFn)
                                                 ELSE new[i] = old[i]]_vars

\* addTypeResolver has given the first of two entries another check function
C28_Witness ==
    /\ lastOp.op = "addTypeResolver"
    /\ lastOp.err = "none"
    /\ lastOp.arg.replaced \in CheckFns
    /\ lastOp.arg.replaced # lastOp.arg.checkFn
    /\ Len(gqcTypeResolvers) = 2
    /\ gqcTypeResolvers[1] = Entry(lastOp.arg.type, lastOp.arg.checkFn)

----------------------------------------------------------------------------
(* clone *)

\* the extensions at an address, as a value
ExtensionsView(h, e) == [has |-> e # 0, map |-> ExtensionsAt(h, e)]

\* the field configs of one _gqcFields as values: type, args with the type
\* and the extensions of each argument, extensions
ViewOf(fields, h) ==
    [f \in DOMAIN fields |->
        LET fc == h[fields[f]]
        IN  [type |-> fc.type,
             hasArgs |-> fc.args # 0,
             args |-> IF fc.args = 0 THEN EmptyObj
                      ELSE [n \in DOMAIN h[fc.args].map |->
                               LET ac == h[h[fc.args].map[n]]
                               IN  [type |-> ac.type,
                                    extensions |-> ExtensionsView(h, ac.extensions)]],
             extensions |-> ExtensionsView(h, fc.extensions)]]

\* the types of the fields and of their arguments
TypesView(fields, h) ==
    [f \in DOMAIN fields |->
        [type |-> ViewOf(fields, h)[f].type,
         args |-> [n \in DOMAIN ViewOf(fields, h)[f].args |->
                      ViewOf(fields, h)[f].args[n].type]]]

OtherComposer(tc) == IF tc = "type" THEN "clone" ELSE "type"

\* C25: clone leaves the type as it is and gives the clone the fields of the
\* type with the same types; from then on the type and the clone share no
\* field config, args map, argument config or extensions, and a call of
\* setField, removeField, extendField, makeField*, makeFieldArg*,
\* removeFieldArg, set/removeFieldExtension or set/removeFieldArgExtension
\* on one of the two leaves every field config of the other as it was.
C25_CloneSharesNothing ==
    [][/\ lastOp'.op = "clone" =>
            /\ ViewOf(tcFields'["type"], heap') = ViewOf(tcFields["type"], heap)
            /\ TypesView(tcFields'["clone"], heap') = TypesView(tcFields["type"], heap)
       /\ "clone" \in DOMAIN tcFields' =>
            ReachOf(tcFields'["type"], heap') \cap ReachOf(tcFields'["clone"], heap') = {}
       /\ ("clone" \in DOMAIN tcFields /\ lastOp'.op # "clone") =>
            LET other == OtherComposer(lastOp'.arg.tc)
            IN  ViewOf(tcFields'[other], heap') = ViewOf(tcFields[other], heap)]_vars

\* makeFieldArgNonNull on the clone has made its argument Int!, the argument
\* of the type is Int; the type has the extension k1, the clone has not
C25_Witness ==
    /\ "clone" \in DOMAIN tcFields
    /\ lastOp.op = "makeFieldArgNonNull"
    /\ lastOp.arg.tc = "clone"
    /\ CloneField \in DOMAIN tcFields["type"]
    /\ CloneField \in DOMAIN tcFields["clone"]
    /\ LET t == ViewOf(tcFields["type"], heap)[CloneField]
           c == ViewOf(tcFields["clone"], heap)[CloneField]
       IN  /\ "id" \in DOMAIN t.args
           /\ "id" \in DOMAIN c.args
           /\ t.args["id"].type = <<"Int">>
           /\ c.args["id"].type = <<"NonNull", "Int">>
           /\ t.extensions.map = [x \in {"k1"} |-> "p1"]
           /\ c.extensions.map = EmptyObj
====
